---- MODULE Spec2Model ----
(***************************************************************************)
(* A model of src/ml.py: the cross-validating regressor wrappers           *)
(* (RegressorCV, RegressorTimeSeriesCV) and the KNNRegressor override.     *)
(*                                                                         *)
(* One behaviour follows one object, of the class `obj` chosen in Init.   *)
(* `self` holds the object's attributes under the names the source gives   *)
(* them, `call` the position of the method that is running, `data` the    *)
(* arguments the caller passes.                                            *)
(*                                                                         *)
(* Conventions.  Index arrays hold 0-based positions, as in the source;    *)
(* a column of n samples is a sequence of length n, read with At(s, i).    *)
(* Floating-point values are exact rationals [n |-> num, d |-> den] with   *)
(* d > 0, in lowest terms; d = 0 is NaN.  A root (rmse, std) is stored as  *)
(* its radicand.  None is <<>> and a value v that may be None is <<v>>.    *)
(***************************************************************************)
EXTENDS Integers, Sequences, FiniteSets, TLC

\* ---------------------------------------------------------------- bounds
MaxN == 5           \* datasets have MaxN - 1 or MaxN samples
MaxY == 2           \* targets are drawn from 1..MaxY
MaxCv == 3          \* fold counts are drawn from 2..MaxCv
MaxGroups == 3      \* group labels are drawn from 0..MaxGroups-1
MaxBins == 2        \* n_bins_stratify is drawn from 2..MaxBins
MaxStale == 1       \* fit is entered with at most MaxStale leftover fold entries
MaxRepeat == 2      \* consecutive calls of a read-only method
NTrain == 3         \* KNNRegressor is fitted on NTrain samples
MaxX == 2           \* with feature values 0..MaxX
MaxK == 3           \* and n_neighbors 1 or MaxK
MaxPredict == 1     \* and answers MaxPredict calls of predict
AutoRows == 4       \* the tables of AutoRegressor and AutoClassifier have AutoRows rows
MaxCatCols == 11    \* and up to MaxCatCols categorical columns

None == <<>>
Some(v) == <<v>>

\* ------------------------------------------------------------- sequences
At(s, i) == s[i + 1]

Range(s) == {s[i] : i \in DOMAIN s}

RECURSIVE SumSeq(_)
SumSeq(s) == IF s = <<>> THEN 0 ELSE Head(s) + SumSeq(Tail(s))

\* numpy fancy indexing a[idx]
Take(a, idx) == [j \in 1..Len(idx) |-> At(a, idx[j])]

\* np.sort / sorted index array of a set of positions
RECURSIVE SortedSeq(_)
SortedSeq(S) ==
    IF S = {} THEN <<>>
    ELSE LET m == CHOOSE x \in S : \A z \in S : x <= z
         IN  <<m>> \o SortedSeq(S \ {m})

\* np.arange(n)
Arange(n) == [j \in 1..n |-> j - 1]

Abs(a) == IF a < 0 THEN -a ELSE a

Max2(a, b) == IF a >= b THEN a ELSE b

\* ------------------------------------------------------------- rationals
RECURSIVE GCD(_, _)
GCD(a, b) == IF b = 0 THEN a ELSE GCD(b, a % b)

NaN == [n |-> 0, d |-> 0]

IsNaN(r) == r.d = 0

Rat(num, den) ==
    IF den = 0 THEN NaN
    ELSE LET g == GCD(Abs(num), Abs(den))
             s == IF den < 0 THEN -1 ELSE 1
         IN  [n |-> (s * num) \div g, d |-> (s * den) \div g]

RInt(i) == [n |-> i, d |-> 1]

RAdd(a, b) == IF IsNaN(a) \/ IsNaN(b) THEN NaN ELSE Rat(a.n * b.d + b.n * a.d, a.d * b.d)

RSub(a, b) == IF IsNaN(a) \/ IsNaN(b) THEN NaN ELSE Rat(a.n * b.d - b.n * a.d, a.d * b.d)

RMul(a, b) == IF IsNaN(a) \/ IsNaN(b) THEN NaN ELSE Rat(a.n * b.n, a.d * b.d)

\* x / 0 is nan here: the callers divide by zero only when the numerator is 0 too
RDiv(a, b) == IF IsNaN(a) \/ IsNaN(b) \/ b.n = 0 THEN NaN ELSE Rat(a.n * b.d, a.d * b.n)

RLess(a, b) == a.n * b.d < b.n * a.d

RECURSIVE RSum(_)
RSum(s) == IF s = <<>> THEN RInt(0) ELSE RAdd(Head(s), RSum(Tail(s)))

\* ----------------------------------------------------------------- numpy
\* np.mean over a sequence of rationals
NpMean(s) == RDiv(RSum(s), RInt(Len(s)))

\* np.median over a sequence of rationals: sort, take the middle element or the
\* mean of the two middle elements
NpMedian(s) ==
    LET srt == SortSeq(s, RLess)
        k == Len(s)
    IN  IF k % 2 = 1 THEN srt[(k \div 2) + 1]
        ELSE RDiv(RAdd(srt[k \div 2], srt[(k \div 2) + 1]), RInt(2))

HasNaN(s) == \E j \in DOMAIN s : IsNaN(s[j])

\* --------------------------------------------------------- sklearn.metrics
\* Each metric raises ValueError on a NaN input; the callers test HasNaN first.
SSRes(y_true, y_pred) ==
    RSum([j \in DOMAIN y_true |->
            RMul(RSub(RInt(y_true[j]), y_pred[j]), RSub(RInt(y_true[j]), y_pred[j]))])

\* len(y) * sum((y - mean(y))^2), an integer
NSSTot(y_true) ==
    Len(y_true) * SumSeq([j \in DOMAIN y_true |-> y_true[j] * y_true[j]])
        - SumSeq(y_true) * SumSeq(y_true)

\* r2_score: nan below two samples; 1 - SSres/SStot; with SStot = 0 it is 1.0 for a
\* perfect prediction and 0.0 otherwise
r2_score(y_true, y_pred) ==
    IF Len(y_true) < 2 THEN NaN
    ELSE IF NSSTot(y_true) # 0
         THEN RSub(RInt(1), RDiv(RMul(RInt(Len(y_true)), SSRes(y_true, y_pred)),
                                 RInt(NSSTot(y_true))))
         ELSE IF SSRes(y_true, y_pred) = RInt(0) THEN RInt(1) ELSE RInt(0)

\* mean_squared_error(..., squared=False): the root of the value stored
mean_squared_error(y_true, y_pred) == RDiv(SSRes(y_true, y_pred), RInt(Len(y_true)))

RAbs(a) == IF IsNaN(a) THEN NaN ELSE [n |-> Abs(a.n), d |-> a.d]

\* mean_absolute_percentage_error; the targets of the model are >= 1
mean_absolute_percentage_error(y_true, y_pred) ==
    NpMean([j \in DOMAIN y_true |->
              RDiv(RAbs(RSub(y_pred[j], RInt(y_true[j]))), RInt(Abs(y_true[j])))])

\* ------------------------------------------------------ the base estimator
\* base_reg is any object with fit and predict.  The model's estimator learns
\* intercept_ from the targets it is fitted on (their minimum or maximum,
\* by its parameter quantile) and predicts intercept_ + x; with two_dim it
\* returns its prediction with shape (n, 1).  train and n_fit record what it
\* was fitted on and how often, fit_kw the keyword arguments of that fit.
NoKw == [sample_weight |-> None, eval_set |-> None]

NewEstimator(quantile, two_dim) ==
    [quantile |-> quantile, two_dim |-> two_dim, n_fit |-> 0,
     train |-> <<>>, fit_kw |-> NoKw, intercept_ |-> 0]

MinOf(s) == CHOOSE v \in Range(s) : \A w \in Range(s) : v <= w

MaxOf(s) == CHOOSE v \in Range(s) : \A w \in Range(s) : v >= w

EstFit(reg, X_train, y_train, train_index, kw) ==
    [reg EXCEPT !.n_fit = @ + 1,
                !.train = train_index,
                !.fit_kw = kw,
                !.intercept_ = IF reg.quantile = 0 THEN MinOf(y_train) ELSE MaxOf(y_train)]

\* the values of reg.predict(X), one per row of X
EstPredictValues(reg, X_rows) == [j \in DOMAIN X_rows |-> RInt(reg.intercept_ + X_rows[j])]

\* reg.predict(X) as an array: shape (n,) or (n, 1)
EstPredict(reg, X_rows) ==
    [shape |-> IF reg.two_dim THEN <<Len(X_rows), 1>> ELSE <<Len(X_rows)>>,
     vals |-> EstPredictValues(reg, X_rows)]

\* ndarray.squeeze(): drops the axes of length one
Squeeze(a) == [a EXCEPT !.shape = SelectSeq(a.shape, LAMBDA m : m # 1)]

\* ------------------------------------------- sklearn.model_selection splitters
\* A splitter object.  Every kind carries the same fields; those a kind does not
\* have are 0, FALSE or None.
Splitter(kind, n_splits, n_repeats, shuffle, random_state) ==
    [kind |-> kind, n_splits |-> n_splits, n_repeats |-> n_repeats,
     shuffle |-> shuffle, random_state |-> random_state]

NoSplitter == Splitter("none", 0, 0, FALSE, None)

\* RandomState(42).shuffle(np.arange(n)): the first and the second shuffle drawn
\* from one MT19937 generator seeded with 42
MT19937Shuffle42(n, draw) ==
    IF draw = 1
    THEN CASE n = 2 -> <<1, 0>>
           [] n = 3 -> <<0, 1, 2>>
           [] n = 4 -> <<1, 3, 0, 2>>
           [] n = 5 -> <<1, 4, 2, 0, 3>>
           [] n = 6 -> <<0, 1, 5, 2, 4, 3>>
           [] n = 7 -> <<0, 1, 5, 2, 4, 3, 6>>
           [] n = 8 -> <<1, 5, 0, 7, 2, 4, 3, 6>>
    ELSE CASE n = 2 -> <<0, 1>>
           [] n = 3 -> <<1, 2, 0>>
           [] n = 4 -> <<1, 3, 0, 2>>
           [] n = 5 -> <<3, 1, 2, 0, 4>>
           [] n = 6 -> <<3, 0, 1, 2, 5, 4>>
           [] n = 7 -> <<5, 0, 3, 2, 1, 6, 4>>
           [] n = 8 -> <<3, 7, 0, 4, 5, 2, 1, 6>>

AllShuffles(n) == {p \in [1..n -> 0..(n - 1)] : \A a, b \in 1..n : p[a] = p[b] => a = b}

\* check_random_state(random_state).shuffle(indices): the arrays it can leave.
\* An integer seed fixes the result; None seeds from the operating system.
Shuffled(random_state, n, draw) ==
    IF random_state = None THEN AllShuffles(n) ELSE {MT19937Shuffle42(n, draw)}

\* A (train, test) pair from the set of test positions, both ascending as the
\* boolean test mask yields them
TrainTest(n, test) == [train |-> SortedSeq((0..(n - 1)) \ test), test |-> SortedSeq(test)]

FoldStart(n, k, f) == f * (n \div k) + (IF f < n % k THEN f ELSE n % k)

FoldSize(n, k, f) == (n \div k) + (IF f < n % k THEN 1 ELSE 0)

\* KFold._iter_test_indices over the (shuffled) array indices: consecutive slices,
\* the first n % k of them one longer
KFoldFolds(indices, k) ==
    LET n == Len(indices)
    IN  [f \in 1..k |->
            TrainTest(n, {indices[j] :
                            j \in (FoldStart(n, k, f - 1) + 1)..
                                  (FoldStart(n, k, f - 1) + FoldSize(n, k, f - 1))})]

SplitOk(folds) == [ok |-> TRUE, folds |-> folds]

SplitError == [ok |-> FALSE, folds |-> <<>>]

\* KFold.split(X): the results it can give
KFoldSplit(kf, n) ==
    IF kf.n_splits > n THEN {SplitError}
    ELSE IF kf.shuffle
         THEN {SplitOk(KFoldFolds(ind, kf.n_splits)) : ind \in Shuffled(kf.random_state, n, 1)}
         ELSE {SplitOk(KFoldFolds(Arange(n), kf.n_splits))}

\* RepeatedKFold.split(X): n_repeats shuffled k-folds drawn from one generator
RECURSIVE RepeatedFolds(_, _, _)
RepeatedFolds(kf, n, rep) ==
    IF rep > kf.n_repeats THEN <<>>
    ELSE KFoldFolds(MT19937Shuffle42(n, rep), kf.n_splits) \o RepeatedFolds(kf, n, rep + 1)

RepeatedKFoldSplit(kf, n) ==
    IF kf.n_splits > n THEN {SplitError} ELSE {SplitOk(RepeatedFolds(kf, n, 1))}

\* TimeSeriesSplit.split(X): k test windows of n // (k + 1) samples at the end of
\* the series, each trained on everything before it
TimeSeriesSplitSplit(tss, n) ==
    LET k == tss.n_splits
        test_size == n \div (k + 1)
    IN  IF k + 1 > n THEN {SplitError}
        ELSE {SplitOk([f \in 1..k |->
                LET test_start == n - k * test_size + (f - 1) * test_size
                IN  [train |-> SortedSeq(0..(test_start - 1)),
                     test |-> SortedSeq(test_start..(test_start + test_size - 1))]])}

\* GroupKFold._iter_test_indices.  The groups, largest first, go one by one to the
\* fold that holds the fewest samples so far (np.argmin: the first such fold).
\* np.argsort leaves the order of equally large groups open: every order is taken.
GroupCount(groups, g) == Cardinality({j \in DOMAIN groups : groups[j] = g})

GroupOrders(groups) ==
    LET unique == SortedSeq(Range(groups))
        m == Len(unique)
    IN  {o \in [1..m -> Range(groups)] :
            /\ \A a, b \in 1..m : o[a] = o[b] => a = b
            /\ \A a \in 1..(m - 1) : GroupCount(groups, o[a]) >= GroupCount(groups, o[a + 1])}

ArgMin(s) == CHOOSE j \in DOMAIN s : /\ \A i \in DOMAIN s : s[j] <= s[i]
                                     /\ \A i \in 1..(j - 1) : s[i] > s[j]

\* group_to_fold after the groups order[pos..] are placed: a function from group
\* label to fold number (1-based here)
RECURSIVE GroupToFold(_, _, _, _, _)
GroupToFold(groups, order, pos, n_samples_per_fold, group_to_fold) ==
    IF pos > Len(order) THEN group_to_fold
    ELSE LET lightest_fold == ArgMin(n_samples_per_fold)
             weight == GroupCount(groups, order[pos])
         IN  GroupToFold(groups, order, pos + 1,
                         [n_samples_per_fold EXCEPT ![lightest_fold] = @ + weight],
                         [group_to_fold EXCEPT ![order[pos]] = lightest_fold])

GroupKFoldFolds(groups, k, order) ==
    LET g2f == GroupToFold(groups, order, 1, [f \in 1..k |-> 0], [g \in Range(groups) |-> 0])
    IN  [f \in 1..k |->
            TrainTest(Len(groups), {j - 1 : j \in {i \in DOMAIN groups : g2f[groups[i]] = f}})]

\* GroupKFold.split(X, groups=groups)
GroupKFoldSplit(kf, n, groups) ==
    IF groups = None \/ kf.n_splits > n THEN {SplitError}
    ELSE IF kf.n_splits > Cardinality(Range(groups[1])) THEN {SplitError}
    ELSE {SplitOk(GroupKFoldFolds(groups[1], kf.n_splits, o)) : o \in GroupOrders(groups[1])}

\* pd.cut(y, bins, labels=False): bins equal-width intervals (lo, hi] over
\* [min(y), max(y)], the lowest edge moved down to take min(y) in; a constant y
\* sits in the middle of a range widened on both sides
Cut(y, bins) ==
    LET mn == MinOf(y)
        mx == MaxOf(y)
    IN  [j \in DOMAIN y |->
            IF mn = mx THEN ((bins + 1) \div 2) - 1
            ELSE IF y[j] = mn THEN 0
            ELSE CHOOSE b \in 0..(bins - 1) :
                    /\ bins * (y[j] - mn) <= (b + 1) * (mx - mn)
                    /\ bins * (y[j] - mn) > b * (mx - mn)]

\* StratifiedKFold._make_test_folds without shuffling.  The classes are numbered in
\* their order of appearance; fold i takes, of every class, as many samples as the
\* sorted classes hold at positions i, i + k, i + 2k, ...; the samples of a class
\* fill the folds in order.
FirstAt(y, v) == CHOOSE j \in DOMAIN y : y[j] = v /\ \A i \in 1..(j - 1) : y[i] # v

YEncoded(y) ==
    [j \in DOMAIN y |-> Cardinality({v \in Range(y) : FirstAt(y, v) < FirstAt(y, y[j])})]

Allocation(y_order, k, i, c) ==
    Cardinality({j \in DOMAIN y_order : (j - 1) % k = i /\ y_order[j] = c})

RECURSIVE AllocatedBefore(_, _, _, _)
AllocatedBefore(y_order, k, f, c) ==
    IF f = 0 THEN 0
    ELSE Allocation(y_order, k, f - 1, c) + AllocatedBefore(y_order, k, f - 1, c)

TestFolds(y, k) ==
    LET y_encoded == YEncoded(y)
        y_order == SortSeq(y_encoded, <)
    IN  [j \in DOMAIN y |->
            LET c == y_encoded[j]
                r == Cardinality({i \in 1..(j - 1) : y_encoded[i] = c})
            IN  CHOOSE f \in 0..(k - 1) :
                    /\ AllocatedBefore(y_order, k, f, c) <= r
                    /\ r < AllocatedBefore(y_order, k, f + 1, c)]

\* StratifiedKFold.split(X, y): ValueError without y, and when every class has
\* fewer members than there are folds
StratifiedKFoldSplit(kf, n, y) ==
    IF y = None \/ kf.n_splits > n THEN {SplitError}
    ELSE IF \A v \in Range(y[1]) : kf.n_splits > GroupCount(y[1], v) THEN {SplitError}
    ELSE LET test_folds == TestFolds(y[1], kf.n_splits)
         IN  {SplitOk([f \in 1..kf.n_splits |->
                  TrainTest(n, {j - 1 : j \in {i \in DOMAIN test_folds :
                                                  test_folds[i] = f - 1}})])}

\* splitter.split(X, y, groups) for the splitters of the model
Split(kf, n, y, groups) ==
    CASE kf.kind = "KFold" -> KFoldSplit(kf, n)
      [] kf.kind = "GroupKFold" -> GroupKFoldSplit(kf, n, groups)
      [] kf.kind = "StratifiedKFold" -> StratifiedKFoldSplit(kf, n, y)
      [] kf.kind = "TimeSeriesSplit" -> TimeSeriesSplitSplit(kf, n)
      [] kf.kind = "RepeatedKFold" -> RepeatedKFoldSplit(kf, n)

\* ------------------------------------------------------------------ state
VARIABLES
    obj,      \* the class of the object the behaviour follows
    data,     \* the caller's data: X (one feature per sample) and y
    self,     \* the object's attributes
    call,     \* the running method: pc, and inside fit the loop's position
    raised,   \* the exception the last call ended with, or None
    ret,      \* what the last call returned
    hist      \* what the fit calls did: the splits the latest and the one before it
              \* consumed, the writes of the latest to oof_train_, and how the latest
              \* call on this object ended

vars == <<obj, data, self, call, raised, ret, hist>>

Idle == [pc |-> "idle"]

NoReturn == [op |-> "none", calls |-> 0]

NoHist == [prev_splits |-> <<>>, cur_splits |-> <<>>, oof_writes |-> <<>>, last_fit |-> "none"]

\* The datasets: MaxN - 1 or MaxN samples, the feature alternating 0, 1, the target
\* a step from 1 to MaxY at position t
Datasets ==
    {[X |-> [j \in 1..n |-> (j - 1) % 2],
      y |-> [j \in 1..n |-> IF j <= t THEN 1 ELSE MaxY]] :
        n \in {MaxN - 1, MaxN}, t \in 1..(MaxN - 2)}

Estimators == {NewEstimator(0, FALSE), NewEstimator(1, FALSE), NewEstimator(0, TRUE)}

\* ------------------------------------------------------------ RegressorCV
IntCv(k) == [is_int |-> TRUE, n |-> k, splitter |-> NoSplitter]

SplitterCv(sp) == [is_int |-> FALSE, n |-> 0, splitter |-> sp]

\* the splitter of plain k-fold, line 244
PlainKFoldUnseeded(k) == Splitter("KFold", k, 0, TRUE, None)

PlainKFold(k) == Splitter("KFold", k, 0, TRUE, Some(42))

\* __init__, lines 235-246: the splitter
ChooseKfStratifyFirst(cv, groups, n_bins_stratify) ==
    IF cv.is_int
    THEN IF n_bins_stratify # None THEN Splitter("StratifiedKFold", cv.n, 0, FALSE, None)
         ELSE IF groups # None THEN Splitter("GroupKFold", cv.n, 0, FALSE, None)
         ELSE PlainKFold(cv.n)
    ELSE cv.splitter

ChooseKf(cv, groups, n_bins_stratify) ==
    IF cv.is_int
    THEN IF groups # None THEN Splitter("GroupKFold", cv.n, 0, FALSE, None)
         ELSE IF n_bins_stratify # None THEN Splitter("StratifiedKFold", cv.n, 0, FALSE, None)
         ELSE PlainKFold(cv.n)
    ELSE cv.splitter

\* cv_results_ as __init__ leaves it: a dict of three lists
EmptyResults == [frame |-> FALSE, fold |-> <<>>, reg |-> <<>>, metrics |-> <<>>]

\* line 401: CatBoostRegressorCV inherits the methods of RegressorCV
RegressorCVClasses == {"RegressorCV", "CatBoostRegressorCV"}

\* RegressorCV.__init__
RegressorCVInit(base_reg, cv, groups, verbose, n_bins_stratify) ==
    [cv |-> cv, base_reg |-> base_reg, verbose |-> verbose, groups |-> groups,
     n_bins_stratify |-> n_bins_stratify,
     _kf |-> ChooseKf(cv, groups, n_bins_stratify),
     cv_results_ |-> EmptyResults,
     oof_train_ |-> None, oof_score_ |-> None, oof_mape_ |-> None,
     oof_rmse_ |-> None, metrics_ |-> None]

\* the arguments the model constructs RegressorCV with
CvArgs == {IntCv(2), IntCv(MaxCv),
           SplitterCv(Splitter("TimeSeriesSplit", 2, 0, FALSE, None)),
           SplitterCv(Splitter("RepeatedKFold", 2, 2, FALSE, Some(42)))}

GroupsArgs(n) == {None, Some([j \in 1..n |-> (j - 1) % MaxGroups])}

BinsArgs == {None, Some(MaxBins)}

InitCV ==
    /\ obj = "RegressorCV"
    /\ data \in Datasets
    /\ \E b \in Estimators, c \in CvArgs, g \in GroupsArgs(Len(data.y)), nb \in BinsArgs :
          self = RegressorCVInit(b, c, g, FALSE, nb)
    /\ call = Idle
    /\ raised = None
    /\ ret = NoReturn
    /\ hist = NoHist

\* fit, lines 264-277: the arguments of self._kf.split
FitSplitArgs(slf, y) ==
    IF slf.groups # None THEN [y |-> None, groups |-> slf.groups]
    ELSE IF slf.n_bins_stratify # None
         THEN [y |-> Some(Cut(y, slf.n_bins_stratify[1])), groups |-> None]
         ELSE [y |-> None, groups |-> None]

\* fit up to the loop, lines 262-280: the out-of-fold vector is allocated and the
\* split is made; a splitter that rejects its arguments ends the call
CVFitEnter ==
    /\ obj \in RegressorCVClasses
    /\ call.pc = "idle"
    /\ Len(self.cv_results_.fold) <= MaxStale \/ self.cv_results_.frame
    /\ LET args == FitSplitArgs(self, data.y)
           n == Len(data.y)
       IN  \E sp \in Split(self._kf, n, args.y, args.groups) :
             /\ self' = [self EXCEPT !.oof_train_ = Some([j \in 1..n |-> NaN])]
             /\ hist' = [prev_splits |-> hist.cur_splits, cur_splits |-> <<>>,
                         oof_writes |-> [j \in 1..n |-> 0],
                         last_fit |-> IF sp.ok THEN "running" ELSE "failed"]
             /\ ret' = NoReturn
             /\ IF sp.ok
                THEN /\ call' = [pc |-> "fit", fold_n |-> 0, kf_split |-> sp.folds,
                                 split_args |-> args]
                     /\ raised' = None
                ELSE /\ call' = Idle
                     /\ raised' = Some("ValueError")
    /\ UNCHANGED <<obj, data>>

\* What the estimator does in one fold: it works, its fit raises, its predict
\* raises, or its predict returns NaN (and the metric functions raise ValueError)
Outcomes == {"ok", "fit_raises", "predict_raises", "predict_nan"}

\* _reg_metrics, lines 383-392
RegMetrics(y, y_pred) ==
    <<r2_score(y, y_pred), mean_squared_error(y, y_pred),
      mean_absolute_percentage_error(y, y_pred)>>

\* series.iloc[positions] = arr: arr holds one value per position, or is 0-d and
\* goes to every position
IlocSet(series, positions, arr) ==
    [j \in DOMAIN series |->
        IF \E q \in DOMAIN positions : positions[q] = j - 1
        THEN IF arr.shape = <<>> THEN arr.vals[1]
             ELSE arr.vals[CHOOSE q \in DOMAIN positions :
                             positions[q] = j - 1 /\ \A r \in DOMAIN positions :
                                 positions[r] = j - 1 => r <= q]
        ELSE series[j]]

\* lines 325 and 328: the positions of oof_train_ a fold's prediction is written to
OofPositionsReversed(test_index) ==
    [j \in DOMAIN test_index |-> test_index[Len(test_index) + 1 - j]]

OofPositions(test_index) == test_index

\* lines 324-328: the fold's prediction goes into the out-of-fold vector
OofAssignOneDimOnly(oof, test_index, y_pred) ==
    IF Len(y_pred.shape) = 1 THEN IlocSet(oof, OofPositions(test_index), y_pred)
    ELSE oof

OofAssign(oof, test_index, y_pred) ==
    IF Len(y_pred.shape) = 1 THEN IlocSet(oof, OofPositions(test_index), y_pred)
    ELSE IF Len(y_pred.shape) = 2 THEN IlocSet(oof, OofPositions(test_index), Squeeze(y_pred))
    ELSE oof

CountWrites(writes, positions) ==
    [j \in DOMAIN writes |->
        writes[j] + Cardinality({q \in DOMAIN positions : positions[q] = j - 1})]

\* lines 315 and 330-332: the fold's results are appended to the three lists; reg
\* is the fold's own deep copy, so the entries before it stay as they are
AppendResultsShared(res, fold_n, reg, metrics) ==
    [res EXCEPT !.fold = Append(@, fold_n),
                !.reg = Append([i \in DOMAIN @ |-> reg], reg),
                !.metrics = Append(@, metrics)]

AppendResults(res, fold_n, reg, metrics) ==
    [res EXCEPT !.fold = Append(@, fold_n), !.reg = Append(@, reg),
                !.metrics = Append(@, metrics)]

\* An exception raised inside a fold is caught nowhere in fit (lines 72-122 and
\* 280-332 hold no try): it ends the call
OnFoldErrorSkip(c) == [c EXCEPT !.fold_n = @ + 1]

OnFoldError(c) == Idle

\* One iteration of the loop of fit, lines 280-332
CVFitFold ==
    /\ obj \in RegressorCVClasses
    /\ call.pc = "fit"
    /\ call.fold_n < Len(call.kf_split)
    /\ LET fold == call.kf_split[call.fold_n + 1]
           X_train == Take(data.X, fold.train)
           X_test == Take(data.X, fold.test)
           y_train == Take(data.y, fold.train)
           y_test == Take(data.y, fold.test)
           reg == EstFit(self.base_reg, X_train, y_train, fold.train, NoKw)
           y_pred == EstPredict(reg, X_test)
           metrics == RegMetrics(y_test, y_pred.vals)
           oof == OofAssign(self.oof_train_[1], fold.test, y_pred)
           seen == [hist EXCEPT !.cur_splits = Append(@, fold)]
           failed == [seen EXCEPT !.last_fit = "failed"]
       IN  \E outcome \in Outcomes :
             IF outcome # "ok"
             THEN /\ raised' = Some(IF outcome = "predict_nan" THEN "ValueError"
                                    ELSE "EstimatorError")
                  /\ call' = OnFoldError(call)
                  /\ hist' = failed
                  /\ UNCHANGED self
             ELSE IF self.cv_results_.frame
             THEN \* cv_results_ is a DataFrame after an earlier fit: its column
                  \* has no list append
                  /\ raised' = Some("AttributeError")
                  /\ call' = Idle
                  /\ self' = [self EXCEPT !.oof_train_ = Some(oof)]
                  /\ hist' = [failed EXCEPT !.oof_writes =
                                 CountWrites(@, OofPositions(fold.test))]
             ELSE /\ self' = [self EXCEPT
                                !.oof_train_ = Some(oof),
                                !.cv_results_ = AppendResults(@, call.fold_n, reg, metrics)]
                  /\ call' = [call EXCEPT !.fold_n = @ + 1]
                  /\ hist' = [seen EXCEPT !.oof_writes =
                                 CountWrites(@, OofPositions(fold.test))]
                  /\ UNCHANGED raised
    /\ UNCHANGED <<obj, data, ret>>

\* _convert_report_to_df, lines 372-381: the dict of lists becomes a table with the
\* columns fold, reg, r2_score, rmse, mape, one row per list entry
ConvertReportToDf(res) ==
    [frame |-> TRUE, fold |-> res.fold, reg |-> res.reg,
     r2_score |-> [j \in DOMAIN res.metrics |-> res.metrics[j][1]],
     rmse |-> [j \in DOMAIN res.metrics |-> res.metrics[j][2]],
     mape |-> [j \in DOMAIN res.metrics |-> res.metrics[j][3]]]

\* DataFrame.mean() and .std() of a column skip NaN
NotNaN(col) == SelectSeq(col, LAMBDA v : ~IsNaN(v))

ColMean(col) == IF NotNaN(col) = <<>> THEN NaN ELSE NpMean(NotNaN(col))

\* the sample variance (ddof = 1); std is its root
ColVar(col) ==
    LET v == NotNaN(col)
        m == Len(v)
        sq == RSum([j \in DOMAIN v |-> RMul(v[j], v[j])])
        sm == RSum(v)
    IN  IF m < 2 THEN NaN
        ELSE RDiv(RSub(RMul(RInt(m), sq), RMul(sm, sm)), RInt(m * (m - 1)))

\* The rmse column holds radicands, so its mean and std are kept as terms over
\* the column's values
RootsTerm(agg, col) == [agg |-> agg, roots |-> NotNaN(col)]

SummaryRow(index, r2, rmse, mape) ==
    [index |-> index, r2_score |-> r2, rmse |-> rmse, mape |-> mape]

\* get_metrics_summary, lines 346-361: the table without reg, indexed by fold,
\* with a mean row and a std row appended
MetricsSummary(res) ==
    [j \in DOMAIN res.fold |->
        SummaryRow(<<"fold", res.fold[j]>>, res.r2_score[j], res.rmse[j], res.mape[j])]
    \o <<SummaryRow(<<"mean">>, ColMean(res.r2_score), RootsTerm("mean", res.rmse),
                    ColMean(res.mape)),
         SummaryRow(<<"std">>, ColVar(res.r2_score), RootsTerm("std", res.rmse),
                    ColVar(res.mape))>>

\* lines 347-353: drop, set_index and concat each return a new table, so
\* self.cv_results_ is what it was
SummaryLeavesAppended(res) ==
    [res EXCEPT !.fold = @ \o <<-1, -1>>,
                !.reg = @ \o <<res.reg[1], res.reg[1]>>,
                !.r2_score = @ \o <<ColMean(res.r2_score), ColVar(res.r2_score)>>,
                !.rmse = @ \o <<res.rmse[1], res.rmse[1]>>,
                !.mape = @ \o <<ColMean(res.mape), ColVar(res.mape)>>]

SummaryLeaves(res) == res

\* The end of fit, lines 333-339.  The metric functions raise ValueError when the
\* out-of-fold vector still holds NaN.
CVFitFinish ==
    /\ obj \in RegressorCVClasses
    /\ call.pc = "fit"
    /\ call.fold_n = Len(call.kf_split)
    /\ LET frame == ConvertReportToDf(self.cv_results_)
           oof == self.oof_train_[1]
       IN  IF HasNaN(oof)
           THEN /\ self' = [self EXCEPT !.cv_results_ = frame]
                /\ raised' = Some("ValueError")
                /\ hist' = [hist EXCEPT !.last_fit = "failed"]
                /\ UNCHANGED ret
           ELSE /\ self' = [self EXCEPT
                              !.cv_results_ = SummaryLeaves(frame),
                              !.oof_score_ = Some(r2_score(data.y, oof)),
                              !.oof_mape_ = Some(mean_absolute_percentage_error(data.y, oof)),
                              !.oof_rmse_ = Some(mean_squared_error(data.y, oof)),
                              !.metrics_ = Some(MetricsSummary(frame))]
                /\ raised' = None
                /\ hist' = [hist EXCEPT !.last_fit = "completed"]
                /\ ret' = [op |-> "fit", calls |-> 0]
    /\ call' = Idle
    /\ UNCHANGED <<obj, data>>

\* get_metrics_summary called by the user
CVGetMetricsSummary ==
    /\ obj \in RegressorCVClasses
    /\ call.pc = "idle"
    /\ ret.op = "get_metrics_summary" => ret.calls < MaxRepeat
    /\ IF self.cv_results_.frame
       THEN /\ ret' = [op |-> "get_metrics_summary",
                       calls |-> IF ret.op = "get_metrics_summary" THEN ret.calls + 1 ELSE 1,
                       prev |-> IF ret.op = "get_metrics_summary" THEN Some(ret.val) ELSE None,
                       val |-> MetricsSummary(self.cv_results_)]
            /\ self' = [self EXCEPT !.cv_results_ = SummaryLeaves(@)]
            /\ raised' = None
       ELSE \* a dict has no drop
            /\ raised' = Some("AttributeError")
            /\ ret' = NoReturn
            /\ UNCHANGED self
    /\ UNCHANGED <<obj, data, call, hist>>

\* the feature rows predict is called with
PredictInputs == {<<1>>, <<0, 1>>}

\* predict, lines 363-370: y_preds, and its median over the folds (axis 0)
CVPredictMean(res, X) ==
    LET y_preds == [i \in DOMAIN res.reg |-> EstPredict(res.reg[i], X)]
    IN  [y_preds |-> y_preds,
         y_pred |-> [shape |-> y_preds[1].shape,
                     vals |-> [j \in DOMAIN X |->
                                 NpMean([i \in DOMAIN y_preds |-> y_preds[i].vals[j]])]]]

CVPredict(res, X) ==
    LET y_preds == [i \in DOMAIN res.reg |-> EstPredict(res.reg[i], X)]
    IN  [y_preds |-> y_preds,
         y_pred |-> [shape |-> y_preds[1].shape,
                     vals |-> [j \in DOMAIN X |->
                                 NpMedian([i \in DOMAIN y_preds |-> y_preds[i].vals[j]])]]]

CVPredictCall ==
    /\ obj \in RegressorCVClasses
    /\ call.pc = "idle"
    /\ \E X \in PredictInputs :
          IF self.cv_results_.frame
          THEN /\ ret' = [op |-> "predict", calls |-> 0, X |-> X,
                          y_preds |-> CVPredict(self.cv_results_, X).y_preds,
                          val |-> CVPredict(self.cv_results_, X).y_pred]
               /\ raised' = None
          ELSE \* a dict has no attribute reg
               /\ raised' = Some("AttributeError")
               /\ ret' = NoReturn
    /\ UNCHANGED <<obj, data, self, call, hist>>

\* Another RegressorCV is constructed with the same arguments and a new, unfitted
\* base estimator, and the behaviour goes on with it
CVConstruct ==
    /\ obj = "RegressorCV"
    /\ call.pc = "idle"
    /\ self' = RegressorCVInit(NewEstimator(self.base_reg.quantile, self.base_reg.two_dim),
                               self.cv, self.groups, self.verbose, self.n_bins_stratify)
    /\ raised' = None
    /\ ret' = NoReturn
    /\ hist' = [hist EXCEPT !.last_fit = "none"]
    /\ UNCHANGED <<obj, data, call>>

NextCV == CVFitEnter \/ CVFitFold \/ CVFitFinish \/ CVGetMetricsSummary
              \/ CVPredictCall \/ CVConstruct


\* ----------------------------------------------------- CatBoostRegressorCV
\* CatBoostRegressor(verbose=..., cat_features=..., **reg_args), lines 404-408:
\* an estimator that keeps its constructor arguments; the loss it is configured
\* with decides what it fits
CatBoostRegressor(verbose, cat_features, reg_args) ==
    [quantile |-> reg_args.quantile, two_dim |-> FALSE, n_fit |-> 0,
     train |-> <<>>, fit_kw |-> NoKw, intercept_ |-> 0,
     verbose |-> verbose, cat_features |-> cat_features, reg_args |-> reg_args]

\* CatBoostRegressorCV.__init__, lines 402-415
CatBoostRegressorCVInitNoGroups(cv, cat_features, groups, verbose, n_bins_stratify, reg_args) ==
    [c \in {"cat_features"} |-> cat_features]
    @@ RegressorCVInit(CatBoostRegressor(0, cat_features, reg_args),
                       cv, None, verbose, n_bins_stratify)

CatBoostRegressorCVInit(cv, cat_features, groups, verbose, n_bins_stratify, reg_args) ==
    [c \in {"cat_features"} |-> cat_features]
    @@ RegressorCVInit(CatBoostRegressor(0, cat_features, reg_args),
                       cv, groups, verbose, n_bins_stratify)

\* the arguments the model constructs CatBoostRegressorCV with
CatBoostArgs(n) ==
    [cv : {IntCv(2)}, cat_features : {None, Some(<<0>>)}, groups : GroupsArgs(n),
     verbose : BOOLEAN, n_bins_stratify : BinsArgs,
     reg_args : {[quantile |-> 0], [quantile |-> 1]}]

InitCB ==
    /\ obj = "CatBoostRegressorCV"
    /\ \E d \in {e \in Datasets : Len(e.y) = MaxN /\ e.y[2] = 1 /\ e.y[3] = MaxY},
          a \in CatBoostArgs(MaxN) :
          /\ data = [X |-> d.X, y |-> d.y, args |-> a]
          /\ self = CatBoostRegressorCVInit(a.cv, a.cat_features, a.groups, a.verbose,
                                            a.n_bins_stratify, a.reg_args)
    /\ call = Idle
    /\ raised = None
    /\ ret = NoReturn
    /\ hist = NoHist

\* Another CatBoostRegressorCV is constructed with the same arguments, and the
\* behaviour goes on with it
CBConstruct ==
    /\ obj = "CatBoostRegressorCV"
    /\ call.pc = "idle"
    /\ self' = CatBoostRegressorCVInit(data.args.cv, data.args.cat_features,
                                       data.args.groups, data.args.verbose,
                                       data.args.n_bins_stratify, data.args.reg_args)
    /\ raised' = None
    /\ ret' = NoReturn
    /\ hist' = [hist EXCEPT !.last_fit = "none"]
    /\ UNCHANGED <<obj, data, call>>

NextCB == CVFitEnter \/ CVFitFold \/ CVFitFinish \/ CVGetMetricsSummary
             \/ CVPredictCall \/ CBConstruct

SpecCatBoost == InitCB /\ [][NextCB]_vars

\* --------------------------------------------------- RegressorTimeSeriesCV
\* RegressorTimeSeriesCV.__init__, lines 54-66; cv_results_ is a list
TimeSeriesCVInit(base_reg, cv, catboost_use_eval_set) ==
    [cv |-> cv, base_reg |-> base_reg, catboost_use_eval_set |-> catboost_use_eval_set,
     _tss |-> Splitter("TimeSeriesSplit", cv, 0, FALSE, None),
     cv_results_ |-> [frame |-> FALSE, rows |-> <<>>],
     metrics_ |-> None, y_test_last_fold_ |-> None, y_pred_last_fold_ |-> None]

\* the sample weights fit is called with: none, or weight i + 1 for sample i
WeightArgs(n) == {None, Some([j \in 1..n |-> j])}

InitTS ==
    /\ obj = "RegressorTimeSeriesCV"
    /\ data \in Datasets
    /\ \E b \in Estimators, k \in {2, MaxCv}, e \in BOOLEAN :
          self = TimeSeriesCVInit(b, k, e)
    /\ call = Idle
    /\ raised = None
    /\ ret = NoReturn
    /\ hist = NoHist

\* fit up to the loop, lines 68-72
TSFitEnter ==
    /\ obj = "RegressorTimeSeriesCV"
    /\ call.pc = "idle"
    /\ Len(self.cv_results_.rows) <= MaxStale \/ self.cv_results_.frame
    /\ \E sp \in TimeSeriesSplitSplit(self._tss, Len(data.y)),
          w \in WeightArgs(Len(data.y)) :
          /\ hist' = [prev_splits |-> hist.cur_splits, cur_splits |-> <<>>,
                      oof_writes |-> <<>>,
                      last_fit |-> IF sp.ok THEN "running" ELSE "failed"]
          /\ IF sp.ok
             THEN /\ call' = [pc |-> "fit", fold_n |-> 0, kf_split |-> sp.folds,
                              sample_weight |-> w, y_test |-> None, y_pred |-> None]
                  /\ raised' = None
             ELSE /\ call' = Idle
                  /\ raised' = Some("ValueError")
    /\ ret' = NoReturn
    /\ UNCHANGED <<obj, data, self>>

\* lines 85-101: the keyword arguments of reg.fit in a fold
TSFoldKw(slf, sample_weight, fold) ==
    [sample_weight |-> IF sample_weight # None
                       THEN Some(Take(sample_weight[1], fold.train)) ELSE None,
     eval_set |-> IF slf.catboost_use_eval_set THEN Some(fold.test) ELSE None]

\* lines 110-122: the entry of a fold
TSFoldRow(fold_n, reg, fold, metrics) ==
    [fold |-> fold_n, reg |-> reg,
     train_size |-> Len(fold.train), test_size |-> Len(fold.test),
     train_start_index |-> fold.train[1], train_end_index |-> fold.train[Len(fold.train)],
     test_start_index |-> fold.test[1], test_end_index |-> fold.test[Len(fold.test)],
     metrics |-> metrics]

\* line 96: the estimator a fold fits is a deep copy of base_reg, which as a
\* value is base_reg as it is when the fold starts
TSFoldEstimator(slf) == slf.base_reg

\* One iteration of the loop of fit, lines 72-122
TSFitFold ==
    /\ obj = "RegressorTimeSeriesCV"
    /\ call.pc = "fit"
    /\ call.fold_n < Len(call.kf_split)
    /\ LET fold == call.kf_split[call.fold_n + 1]
           X_train == Take(data.X, fold.train)
           X_test == Take(data.X, fold.test)
           y_train == Take(data.y, fold.train)
           y_test == Take(data.y, fold.test)
           reg == EstFit(TSFoldEstimator(self), X_train, y_train, fold.train,
                         TSFoldKw(self, call.sample_weight, fold))
           y_pred == EstPredict(reg, X_test)
           metrics == RegMetrics(y_test, y_pred.vals)
           seen == [hist EXCEPT !.cur_splits = Append(@, fold)]
       IN  \E outcome \in Outcomes :
             IF outcome # "ok"
             THEN /\ raised' = Some(IF outcome = "predict_nan" THEN "ValueError"
                                    ELSE "EstimatorError")
                  /\ call' = OnFoldError(call)
                  /\ hist' = [seen EXCEPT !.last_fit = "failed"]
                  /\ UNCHANGED self
             ELSE IF self.cv_results_.frame
             THEN \* cv_results_ is a DataFrame after an earlier fit: it takes no
                  \* dict appended
                  /\ raised' \in {Some("TypeError"), Some("AttributeError")}
                  /\ call' = Idle
                  /\ hist' = [seen EXCEPT !.last_fit = "failed"]
                  /\ UNCHANGED self
             ELSE /\ self' = [self EXCEPT !.cv_results_.rows =
                                 Append(@, TSFoldRow(call.fold_n, reg, fold, metrics))]
                  /\ call' = [call EXCEPT !.fold_n = @ + 1,
                                          !.y_test = Some(y_test), !.y_pred = Some(y_pred)]
                  /\ hist' = seen
                  /\ UNCHANGED raised
    /\ UNCHANGED <<obj, data, ret>>

\* lines 128-137: the keyword arguments of the fit of base_reg on all the data
TSRefitKw(slf, sample_weight, n) ==
    [sample_weight |-> sample_weight,
     eval_set |-> IF slf.catboost_use_eval_set THEN Some(Arange(n)) ELSE None]

\* lines 127-137: base_reg itself is fitted on the entire X and y
TSRefitLastWindow(slf, c, X, y) ==
    LET fold == c.kf_split[Len(c.kf_split)]
    IN  EstFit(slf.base_reg, Take(X, fold.train), Take(y, fold.train), fold.train,
               TSRefitKw(slf, c.sample_weight, Len(y)))

TSRefit(slf, c, X, y) ==
    EstFit(slf.base_reg, X, y, Arange(Len(y)), TSRefitKw(slf, c.sample_weight, Len(y)))

\* _convert_report_to_df, lines 170-179: a table with the metrics in columns
TSConvertReportToDf(res) ==
    [frame |-> TRUE,
     rows |-> [j \in DOMAIN res.rows |->
                 [fold |-> res.rows[j].fold, reg |-> res.rows[j].reg,
                  train_size |-> res.rows[j].train_size,
                  test_size |-> res.rows[j].test_size,
                  train_start_index |-> res.rows[j].train_start_index,
                  train_end_index |-> res.rows[j].train_end_index,
                  test_start_index |-> res.rows[j].test_start_index,
                  test_end_index |-> res.rows[j].test_end_index,
                  r2_score |-> res.rows[j].metrics[1],
                  rmse |-> res.rows[j].metrics[2],
                  mape |-> res.rows[j].metrics[3]]]]

\* astype(int) of a non-negative value truncates it
TruncInt(r) == r.n \div r.d

\* astype(int) of the root of a non-negative value
TruncRoot(r) == CHOOSE s \in 0..(TruncInt(r) + 1) :
                   /\ s * s * r.d <= r.n
                   /\ (s + 1) * (s + 1) * r.d > r.n

Column(rows, name) == [j \in DOMAIN rows |-> rows[j][name]]

IntColumn(rows, name) == [j \in DOMAIN rows |-> RInt(rows[j][name])]

TSSummaryRow(index, size, r2, rmse, mape) ==
    [index |-> index,
     train_size |-> size[1], test_size |-> size[2],
     train_start_index |-> size[3], train_end_index |-> size[4],
     test_start_index |-> size[5], test_end_index |-> size[6],
     r2_score |-> r2, rmse |-> rmse, mape |-> mape]

\* line 157-160
int_cols == <<"train_size", "test_size", "train_start_index", "train_end_index",
              "test_start_index", "test_end_index">>

\* get_metrics_summary, lines 150-165: the table without reg, indexed by fold,
\* with a mean row and a std row appended and the int_cols cast to int
TSMetricsSummary(res) ==
    LET rows == res.rows
    IN  [j \in DOMAIN rows |->
            TSSummaryRow(<<"fold", rows[j].fold>>,
                         [c \in DOMAIN int_cols |-> rows[j][int_cols[c]]],
                         rows[j].r2_score, rows[j].rmse, rows[j].mape)]
        \o <<TSSummaryRow(<<"mean">>,
                 [c \in DOMAIN int_cols |-> TruncInt(ColMean(IntColumn(rows, int_cols[c])))],
                 ColMean(Column(rows, "r2_score")), RootsTerm("mean", Column(rows, "rmse")),
                 ColMean(Column(rows, "mape"))),
             TSSummaryRow(<<"std">>,
                 [c \in DOMAIN int_cols |-> TruncRoot(ColVar(IntColumn(rows, int_cols[c])))],
                 ColVar(Column(rows, "r2_score")), RootsTerm("std", Column(rows, "rmse")),
                 ColVar(Column(rows, "mape")))>>

\* lines 151-156: drop, set_index and concat each return a new table, so
\* self.cv_results_ is what it was
TSSummaryLeaves(res) == res

\* The end of fit, lines 123-142
TSFitFinish ==
    /\ obj = "RegressorTimeSeriesCV"
    /\ call.pc = "fit"
    /\ call.fold_n = Len(call.kf_split)
    /\ LET last == [self EXCEPT !.y_test_last_fold_ = call.y_test,
                                !.y_pred_last_fold_ = call.y_pred]
           frame == TSConvertReportToDf(self.cv_results_)
       IN  \E outcome \in {"ok", "fit_raises"} :
             IF outcome = "fit_raises"
             THEN /\ self' = last
                  /\ raised' = Some("EstimatorError")
                  /\ hist' = [hist EXCEPT !.last_fit = "failed"]
                  /\ UNCHANGED ret
             ELSE /\ self' = [last EXCEPT
                                !.base_reg = TSRefit(self, call, data.X, data.y),
                                !.cv_results_ = TSSummaryLeaves(frame),
                                !.metrics_ = Some(TSMetricsSummary(frame))]
                  /\ raised' = None
                  /\ hist' = [hist EXCEPT !.last_fit = "completed"]
                  /\ ret' = [op |-> "fit", calls |-> 0]
    /\ call' = Idle
    /\ UNCHANGED <<obj, data>>

\* get_metrics_summary called by the user
TSGetMetricsSummary ==
    /\ obj = "RegressorTimeSeriesCV"
    /\ call.pc = "idle"
    /\ ret.op = "get_metrics_summary" => ret.calls < MaxRepeat
    /\ IF self.cv_results_.frame
       THEN /\ ret' = [op |-> "get_metrics_summary",
                       calls |-> IF ret.op = "get_metrics_summary" THEN ret.calls + 1 ELSE 1,
                       prev |-> IF ret.op = "get_metrics_summary" THEN Some(ret.val) ELSE None,
                       val |-> TSMetricsSummary(self.cv_results_)]
            /\ self' = [self EXCEPT !.cv_results_ = TSSummaryLeaves(@)]
            /\ raised' = None
       ELSE \* a list has no drop
            /\ raised' = Some("AttributeError")
            /\ ret' = NoReturn
            /\ UNCHANGED self
    /\ UNCHANGED <<obj, data, call, hist>>

\* predict, lines 167-168
TSPredict(slf, X) == EstPredict(slf.base_reg, X)

\* predict called by the user; an estimator never fitted raises
TSPredictCall ==
    /\ obj = "RegressorTimeSeriesCV"
    /\ call.pc = "idle"
    /\ \E X \in PredictInputs :
          IF self.base_reg.n_fit > 0
          THEN /\ ret' = [op |-> "predict", calls |-> 0, X |-> X,
                          val |-> TSPredict(self, X)]
               /\ raised' = None
          ELSE /\ raised' = Some("NotFittedError")
               /\ ret' = NoReturn
    /\ UNCHANGED <<obj, data, self, call, hist>>

\* Another RegressorTimeSeriesCV is constructed with the same arguments and a
\* new, unfitted base estimator, and the behaviour goes on with it
TSConstruct ==
    /\ obj = "RegressorTimeSeriesCV"
    /\ call.pc = "idle"
    /\ self' = TimeSeriesCVInit(NewEstimator(self.base_reg.quantile, self.base_reg.two_dim),
                                self.cv, self.catboost_use_eval_set)
    /\ raised' = None
    /\ ret' = NoReturn
    /\ hist' = [hist EXCEPT !.last_fit = "none"]
    /\ UNCHANGED <<obj, data, call>>

NextTS == TSFitEnter \/ TSFitFold \/ TSFitFinish \/ TSGetMetricsSummary
             \/ TSPredictCall \/ TSConstruct

\* ------------------------------------------------------------ KNNRegressor
\* KNNRegressor, line 417: the constructor and fit are the library's; fit keeps
\* the training features in _fit_X and the targets in _y
KNNInit(n_neighbors, weights) ==
    [n_neighbors |-> n_neighbors, weights |-> weights, fitted |-> FALSE,
     _fit_X |-> <<>>, _y |-> [ndim |-> 1, vals |-> <<>>]]

\* training features: one feature per sample, in non-decreasing order
KNNTrainX == {X \in [1..NTrain -> 0..MaxX] : \A j \in 1..(NTrain - 1) : X[j] <= X[j + 1]}

\* targets: a vector, or a table of two outputs per sample
KNNTrainVector == {[ndim |-> 1, vals |-> y] : y \in [1..NTrain -> 1..MaxY]}

KNNTrainTable ==
    {[ndim |-> 2, vals |-> [j \in 1..NTrain |-> <<y[j], y[(j % NTrain) + 1]>>]] :
        y \in {z \in [1..NTrain -> 1..MaxY] : z[1] < z[NTrain]}}

InitKNN ==
    /\ obj = "KNNRegressor"
    /\ \/ \E X \in KNNTrainX, y \in KNNTrainVector : data = [X |-> X, y |-> y]
       \/ \E X \in KNNTrainX, y \in KNNTrainTable : data = [X |-> X, y |-> y]
    /\ \E k \in {1, MaxK}, w \in {"uniform", "distance"} : self = KNNInit(k, w)
    /\ call = Idle
    /\ raised = None
    /\ ret = NoReturn
    /\ hist = NoHist

KNNFit ==
    /\ obj = "KNNRegressor"
    /\ ~self.fitted
    /\ self' = [self EXCEPT !.fitted = TRUE, !._fit_X = data.X, !._y = data.y]
    /\ raised' = None
    /\ ret' = [op |-> "fit", calls |-> 0]
    /\ UNCHANGED <<obj, data, call, hist>>

\* line 421, kneighbors of one query: the indices of k nearest training samples
\* by increasing distance; samples at equal distance come in any order
Distance(fit_X, x, i) == Abs(x - At(fit_X, i))

KNeighbors(fit_X, k, x) ==
    {ind \in [1..k -> 0..(Len(fit_X) - 1)] :
        /\ \A a, b \in 1..k : a < b =>
              /\ ind[a] # ind[b]
              /\ Distance(fit_X, x, ind[a]) <= Distance(fit_X, x, ind[b])
        /\ \A j \in 0..(Len(fit_X) - 1) :
              j \notin Range(ind) => Distance(fit_X, x, j) >= Distance(fit_X, x, ind[k])}

KNeighborsAll(fit_X, k, X) ==
    {ind \in [DOMAIN X -> UNION {KNeighbors(fit_X, k, X[q]) : q \in DOMAIN X}] :
        \A q \in DOMAIN X : ind[q] \in KNeighbors(fit_X, k, X[q])}

NeighDist(fit_X, X, neigh_ind) ==
    [q \in DOMAIN X |-> [a \in DOMAIN neigh_ind[q] |-> Distance(fit_X, X[q], neigh_ind[q][a])]]

\* line 423, _get_weights on one row of distances: none for 'uniform'; for
\* 'distance' 1/dist, and in a row with a zero distance 1 at the zeros and 0
\* elsewhere
GetWeightsNone(dist, weights) == None

GetWeights(dist, weights) ==
    IF weights = "uniform" THEN None
    ELSE IF \E a \in DOMAIN dist : dist[a] = 0
    THEN Some([a \in DOMAIN dist |-> IF dist[a] = 0 THEN RInt(1) ELSE RInt(0)])
    ELSE Some([a \in DOMAIN dist |-> Rat(1, dist[a])])

\* lines 425-427: a vector of targets becomes a column
Reshape(y) == IF y.ndim = 1 THEN [j \in DOMAIN y.vals |-> <<y.vals[j]>>] ELSE y.vals

\* _y[neigh_ind, j] of one query
NeighTargets(rows, ind, j) == [a \in DOMAIN ind |-> RInt(At(rows, ind[a])[j])]

\* lines 430-434
UniformSwapped(pred_calc, t) == IF pred_calc = "mean" THEN NpMedian(t) ELSE NpMean(t)

Uniform(pred_calc, t) == IF pred_calc = "mean" THEN NpMean(t) ELSE NpMedian(t)

\* lines 439-443
WeightedByCount(t, w) ==
    RDiv(RSum([a \in DOMAIN t |-> RMul(t[a], w[a])]), RInt(Len(w)))

Weighted(t, w) ==
    RDiv(RSum([a \in DOMAIN t |-> RMul(t[a], w[a])]), RSum(w))

\* lines 430-447: y_pred, ravelled when the targets are a vector
KNNPredictValues(slf, neigh_dist, neigh_ind, pred_calc) ==
    LET rows == Reshape(slf._y)
        m == Len(rows[1])
        out(q, j) ==
            LET w == GetWeights(neigh_dist[q], slf.weights)
                t == NeighTargets(rows, neigh_ind[q], j)
            IN  IF w = None THEN Uniform(pred_calc, t) ELSE Weighted(t, w[1])
        y_pred == [q \in DOMAIN neigh_ind |-> [j \in 1..m |-> out(q, j)]]
    IN  IF slf._y.ndim = 1
        THEN [ndim |-> 1, vals |-> [q \in DOMAIN y_pred |-> y_pred[q][1]]]
        ELSE [ndim |-> 2, vals |-> y_pred]

\* line 452, np.argsort along the last axis of one row of d: the positions of the
\* row by increasing value, equal values in any order
ArgSort(row) ==
    {p \in [DOMAIN row -> 0..(Len(row) - 1)] :
        \A a, b \in DOMAIN row : a < b => /\ p[a] # p[b]
                                          /\ At(row, p[a]) <= At(row, p[b])}

\* lines 450-457 for one query: d is _y[neigh_ind], one row of targets per
\* neighbour; median_idx is the argsort of the row of neighbour middle_idx, and
\* ni[mi] takes the neighbours at those positions.  The value is the set of results
\* the tie order allows; a position past the last neighbour is an IndexError.
MatchIndex(rows, n_neighbors, ni) ==
    LET d == [a \in DOMAIN ni |-> At(rows, ni[a])]
        middle_idx == n_neighbors \div 2
    IN  {IF \A c \in DOMAIN mi : mi[c] < Len(ni)
         THEN [ok |-> TRUE, val |-> [c \in DOMAIN mi |-> At(ni, mi[c])]]
         ELSE [ok |-> FALSE, val |-> <<>>] : mi \in ArgSort(At(d, middle_idx))}

\* the queries predict is called with
KNNQueries == {<<x>> : x \in 0..MaxX} \cup {<<0, MaxX>>}

\* predict, lines 418-461
KNNPredict ==
    /\ obj = "KNNRegressor"
    /\ ret.op = "predict" => ret.calls < MaxPredict
    /\ \E X \in KNNQueries, return_match_index \in BOOLEAN,
          pred_calc \in {"mean", "median", "mode"} :
         IF ~self.fitted
         THEN /\ raised' = Some("NotFittedError")
              /\ ret' = NoReturn
         ELSE IF self.n_neighbors > Len(self._fit_X)
         THEN /\ raised' = Some("ValueError")
              /\ ret' = NoReturn
         ELSE IF self.weights = "uniform" /\ pred_calc \notin {"mean", "median"}
         THEN \* y_pred is never bound
              /\ raised' = Some("UnboundLocalError")
              /\ ret' = NoReturn
         ELSE \E neigh_ind \in KNeighborsAll(self._fit_X, self.n_neighbors, X) :
              LET neigh_dist == NeighDist(self._fit_X, X, neigh_ind)
                  y_pred == KNNPredictValues(self, neigh_dist, neigh_ind, pred_calc)
                  args == [op |-> "predict",
                           calls |-> IF ret.op = "predict" THEN ret.calls + 1 ELSE 1,
                           X |-> X, pred_calc |-> pred_calc,
                           return_match_index |-> return_match_index,
                           neigh_dist |-> neigh_dist, neigh_ind |-> neigh_ind,
                           val |-> y_pred, nearest_matched_index |-> None]
              IN  IF ~return_match_index
                  THEN /\ ret' = args
                       /\ raised' = None
                  ELSE \E mt \in [DOMAIN X -> UNION {MatchIndex(Reshape(self._y),
                                      self.n_neighbors, neigh_ind[q]) : q \in DOMAIN X}] :
                         /\ \A q \in DOMAIN X :
                               mt[q] \in MatchIndex(Reshape(self._y), self.n_neighbors,
                                                    neigh_ind[q])
                         /\ IF \A q \in DOMAIN X : mt[q].ok
                            THEN /\ ret' = [args EXCEPT !.nearest_matched_index =
                                               Some([q \in DOMAIN X |-> mt[q].val])]
                                 /\ raised' = None
                            ELSE /\ raised' = Some("IndexError")
                                 /\ ret' = NoReturn
    /\ UNCHANGED <<obj, data, self, call, hist>>

NextKNN == KNNFit \/ KNNPredict

\* ----------------------------------------------------------- the program
\* One behaviour follows one object of one of the three classes
Init == InitCV \/ InitTS \/ InitKNN

Next == NextCV \/ NextTS \/ NextKNN

Spec == Init /\ [][Next]_vars

\* ------------------------------------------- AutoRegressor and AutoClassifier
\* A str is the sequence of its characters, so that slices and replace are
\* computed on it.
Digit == <<"0", "1", "2", "3", "4", "5", "6", "7", "8", "9">>

RECURSIVE Str(_)
\* str(i) of an integer i >= 0
Str(i) == IF i < 10 THEN <<Digit[i + 1]>> ELSE Str(i \div 10) \o <<Digit[(i % 10) + 1]>>

\* the column name 'target'
TargetName == <<"t", "a", "r", "g", "e", "t">>

\* A cell of a target column is the value np.log1p applied log1p times to the
\* number of; log1p(0) is 0
Num(v) == [log1p |-> 0, of |-> v, scaled |-> FALSE]

\* StandardScaler.transform of a cell
Scale(c) == [c EXCEPT !.scaled = TRUE]

Log1p(c) == IF c.of = 0 THEN c ELSE [c EXCEPT !.log1p = @ + 1]

\* A DataFrame: the column names in order, and the cells of each column
Frame(cols, col) == [cols |-> cols, col |-> col]

HasCol(df, name) == \E k \in DOMAIN df.cols : df.cols[k] = name

NRows(df) == Len(df.col[df.cols[1]])

\* df[name] = values: the column is replaced where it is, or added as the last
SetCol(df, name, values) ==
    Frame(IF HasCol(df, name) THEN df.cols ELSE Append(df.cols, name),
          [c \in Range(df.cols) \cup {name} |-> IF c = name THEN values ELSE df.col[c]])

\* df.drop(columns=name, inplace=True)
DropCol(df, name) ==
    Frame(SelectSeq(df.cols, LAMBDA c : c # name),
          [c \in Range(df.cols) \ {name} |-> df.col[c]])

\* df.iloc[idx]
TakeRows(df, idx) == Frame(df.cols, [c \in Range(df.cols) |-> Take(df.col[c], idx)])

\* pd.concat([a, b]) of two frames with the same columns
Concat(a, b) == Frame(a.cols, [c \in Range(a.cols) |-> a.col[c] \o b.col[c]])

\* train_test_split(df, random_state=random_st), lines 552-554: the default test
\* size is a quarter of the rows, rounded up; the rows are permuted, the test
\* rows are taken first
train_test_split(df, random_st) ==
    LET n == NRows(df)
        n_test == (n + 3) \div 4
        perm == MT19937Shuffle42(n, 1)
    IN  [train |-> TakeRows(df, SubSeq(perm, n_test + 1, n)),
         test |-> TakeRows(df, SubSeq(perm, 1, n_test))]

\* sklearn transformers with the arguments the code gives them; an argument a
\* class does not have is "", 0 or None
Transformer(cls, strategy, n_neighbors, weights, handle_unknown, min_frequency) ==
    [cls |-> cls, strategy |-> strategy, n_neighbors |-> n_neighbors, weights |-> weights,
     handle_unknown |-> handle_unknown, min_frequency |-> min_frequency]

SimpleImputer(strategy) == Transformer("SimpleImputer", strategy, 0, "", "", None)

KNNImputer(n_neighbors, weights) == Transformer("KNNImputer", "", n_neighbors, weights, "", None)

OneHotEncoder(handle_unknown, min_frequency) ==
    Transformer("OneHotEncoder", "", 0, "", handle_unknown, min_frequency)

StandardScaler == Transformer("StandardScaler", "", 0, "", "", None)

Step(name, transformer) == [name |-> name, transformer |-> transformer]

\* ColumnTransformer(transformers=[('cat', cat_pipe, cat_cols), ('num', num_pipe, num_cols)])
ColumnTransformer(cat_pipe, cat_cols, num_pipe, num_cols) ==
    <<[name |-> "cat", pipe |-> cat_pipe, cols |-> cat_cols],
      [name |-> "num", pipe |-> num_pipe, cols |-> num_cols]>>

\* the outcome of a call: a value, or the exception raised
Returned(v) == [ok |-> TRUE, val |-> v, raised |-> ""]

Raises(e) == [ok |-> FALSE, val |-> <<>>, raised |-> e]

\* lines 739-773 and 1157-1188: the categorical branch
CatPipeNoCutoff(use_catboost_native_cat_features, scale_categoric_data, ohe_min_freq) ==
    IF use_catboost_native_cat_features
    THEN <<Step("imputer", SimpleImputer("constant"))>>
    ELSE <<Step("imputer", SimpleImputer("constant")),
           Step("one_hot", OneHotEncoder("infrequent_if_exist", None))>>
         \o (IF scale_categoric_data THEN <<Step("scaler", StandardScaler)>> ELSE <<>>)

CatPipe(use_catboost_native_cat_features, scale_categoric_data, ohe_min_freq) ==
    IF use_catboost_native_cat_features
    THEN <<Step("imputer", SimpleImputer("constant"))>>
    ELSE <<Step("imputer", SimpleImputer("constant")),
           Step("one_hot", OneHotEncoder("infrequent_if_exist", Some(ohe_min_freq)))>>
         \o (IF scale_categoric_data THEN <<Step("scaler", StandardScaler)>> ELSE <<>>)

\* lines 774-787 and 1190-1203: the numeric branch
NumPipe(num_out_transformer, scale_numeric_data) ==
    <<Step("imputer", num_out_transformer)>>
    \o (IF scale_numeric_data THEN <<Step("scaler", StandardScaler)>> ELSE <<>>)

\* AutoRegressor.get_pipeline_preprocessor, lines 731-796; with a strategy that
\* is neither 'knn' nor 'simple' self.num_out_transformer does not exist at line 737
RegressorPreprocessor(slf) ==
    IF slf.imputer_strategy \notin {"knn", "simple"} THEN Raises("AttributeError")
    ELSE Returned(ColumnTransformer(
            CatPipe(slf.use_catboost_native_cat_features, slf.scale_categoric_data,
                    slf.ohe_min_freq), slf.cat_cols,
            NumPipe(IF slf.imputer_strategy = "knn" THEN KNNImputer(3, "uniform")
                    ELSE SimpleImputer("median"), slf.scale_numeric_data), slf.num_cols))

\* AutoClassifier.get_pipeline_preprocessor, lines 982-1016
ClassifierPreprocessor(slf) ==
    IF slf.imputer_strategy \notin {"knn", "simple"} THEN Raises("AttributeError")
    ELSE Returned(ColumnTransformer(
            <<Step("imputer", SimpleImputer("constant")),
              Step("one_hot", OneHotEncoder("infrequent_if_exist", None))>>, slf.cat_cols,
            <<Step("imputer", IF slf.imputer_strategy = "knn" THEN KNNImputer(3, "uniform")
                              ELSE SimpleImputer("median"))>>, slf.num_cols))

\* the free function get_pipeline_preprocessor, lines 1138-1212; with a strategy
\* that is a str other than 'knn', 'median', 'mean' num_out_transformer is not bound
get_pipeline_preprocessorScalesSwapped(cat_cols, num_cols, imputer_strategy, use_catboost_native_cat_features, scale_categoric_data, scale_numeric_data, ohe_min_freq) ==
    IF imputer_strategy \notin {"knn", "median", "mean"} THEN Raises("UnboundLocalError")
    ELSE Returned(ColumnTransformer(
            CatPipe(use_catboost_native_cat_features, scale_numeric_data, ohe_min_freq),
            cat_cols,
            NumPipe(IF imputer_strategy = "knn" THEN KNNImputer(3, "distance")
                    ELSE SimpleImputer(imputer_strategy), scale_categoric_data),
            num_cols))

get_pipeline_preprocessor(cat_cols, num_cols, imputer_strategy, use_catboost_native_cat_features, scale_categoric_data, scale_numeric_data, ohe_min_freq) ==
    IF imputer_strategy \notin {"knn", "median", "mean"} THEN Raises("UnboundLocalError")
    ELSE Returned(ColumnTransformer(
            CatPipe(use_catboost_native_cat_features, scale_categoric_data, ohe_min_freq),
            cat_cols,
            NumPipe(IF imputer_strategy = "knn" THEN KNNImputer(3, "distance")
                    ELSE SimpleImputer(imputer_strategy), scale_numeric_data),
            num_cols))

\* the default of imputer_strategy: line 526 and 819, and line 1141
MethodDefaultStrategy == "simple"

FunctionDefaultStrategy == "knn"

\* an argument that was passed, or the default of the parameter
ArgOr(arg, default) == IF arg = None THEN default ELSE arg[1]

\* lines 542-562 and 826-846: the frames __init__ stores. With data, the target
\* is copied (through log1p if log_target) into 'target', the column target_col
\* is dropped and the rows are split; with train and test, each gets 'target'
\* from target_col and loses target_col, and data is the two originals together
AutoFrames(a) ==
    IF a.mode = "data"
    THEN LET y == a.data.col[a.target_col]
             withTarget == SetCol(a.data, TargetName,
                                  IF a.log_target THEN [k \in DOMAIN y |-> Log1p(y[k])] ELSE y)
             d == DropCol(withTarget, a.target_col)
             split == train_test_split(d, a.random_st)
         IN  [data |-> d, train |-> split.train, test |-> split.test]
    ELSE [data |-> Concat(a.train, a.test),
          train |-> DropCol(SetCol(a.train, TargetName, a.train.col[a.target_col]),
                            a.target_col),
          test |-> DropCol(SetCol(a.test, TargetName, a.test.col[a.target_col]),
                           a.target_col)]

\* lines 543, 556 and 559: the tables the caller passed, after __init__. The
\* constructor takes data.copy(), train.copy() and test.copy() and writes the
\* 'target' column and the drop to the copies; pd.concat makes a new table
CallerFramesShared(a) ==
    IF a.mode = "data"
    THEN [data |-> AutoFrames(a).data, train |-> a.train, test |-> a.test]
    ELSE [data |-> a.data, train |-> AutoFrames(a).train, test |-> AutoFrames(a).test]

CallerFrames(a) == [data |-> a.data, train |-> a.train, test |-> a.test]

\* lines 564-573: the scaler is fitted on the train target, and both targets
\* are transformed
ScaleTarget(f) ==
    LET scaled(df) == SetCol(df, TargetName,
                             [k \in 1..NRows(df) |-> Scale(df.col[TargetName][k])])
    IN  [f EXCEPT !.train = scaled(f.train), !.test = scaled(f.test)]

\* lines 577-592: the estimator of an AutoRegressor
AutoRegOneBased(estimator, use_catboost_native_cat_features, cat_cols, random_st) ==
    CASE estimator = "random_forest" ->
            [cls |-> "RandomForestRegressor", random_state |-> random_st]
      [] estimator = "catboost" ->
            CatBoostRegressor(0, IF use_catboost_native_cat_features
                                 THEN Some([j \in 1..Len(cat_cols) |-> j]) ELSE None,
                              [quantile |-> 0])
      [] OTHER -> [cls |-> "LinearRegression"]

AutoReg(estimator, use_catboost_native_cat_features, cat_cols, random_st) ==
    CASE estimator = "random_forest" ->
            [cls |-> "RandomForestRegressor", random_state |-> random_st]
      [] estimator = "catboost" ->
            CatBoostRegressor(0, IF use_catboost_native_cat_features
                                 THEN Some(Arange(Len(cat_cols))) ELSE None,
                              [quantile |-> 0])
      [] OTHER -> [cls |-> "LinearRegression"]

\* __init__ did not return: there is no instance, error is what it raised
NotConstructed(e) == [constructed |-> FALSE, error |-> e]

\* AutoRegressor.__init__, lines 516-596
AutoRegressorInit(a) ==
    LET f == AutoFrames(a)
        slf == [num_cols |-> a.num_cols, cat_cols |-> a.cat_cols,
                estimator |-> a.estimator, target_col |-> a.target_col,
                imputer_strategy |-> ArgOr(a.imputer_strategy, MethodDefaultStrategy),
                use_catboost_native_cat_features |-> a.use_catboost_native_cat_features,
                ohe_min_freq |-> a.ohe_min_freq,
                scale_numeric_data |-> a.scale_numeric_data,
                scale_categoric_data |-> a.scale_categoric_data]
        prep == RegressorPreprocessor(slf)
        reg == AutoReg(a.estimator, a.use_catboost_native_cat_features, a.cat_cols,
                       a.random_st)
    IN  IF a.scale_target /\ ~HasCol(f.train, TargetName) THEN NotConstructed("KeyError")
        ELSE IF ~prep.ok THEN NotConstructed(prep.raised)
        ELSE LET g == IF a.scale_target THEN ScaleTarget(f) ELSE f
             IN  slf @@ [constructed |-> TRUE, error |-> "",
                         data |-> g.data, train |-> g.train, test |-> g.test,
                         target_scaler |-> IF a.scale_target
                                           THEN Some(f.train.col[TargetName]) ELSE None,
                         prep |-> prep.val, reg |-> reg,
                         model |-> [prep |-> prep.val, reg |-> reg],
                         fitted |-> None, cat_out_names_ |-> None, num_out_names_ |-> None]

\* AutoClassifier.__init__, lines 809-855
AutoClassifierInit(a) ==
    LET f == AutoFrames(a)
        slf == [num_cols |-> a.num_cols, cat_cols |-> a.cat_cols,
                target_col |-> a.target_col,
                imputer_strategy |-> ArgOr(a.imputer_strategy, MethodDefaultStrategy)]
        prep == ClassifierPreprocessor(slf)
        estimator == IF a.estimator = "catboost"
                     THEN [cls |-> "CatBoostClassifier", verbose |-> 0]
                     ELSE [cls |-> a.estimator, verbose |-> 0]
    IN  IF ~prep.ok THEN NotConstructed(prep.raised)
        ELSE slf @@ [constructed |-> TRUE, error |-> "",
                     data |-> f.data, train |-> f.train, test |-> f.test,
                     estimator |-> estimator,
                     model |-> [prep |-> prep.val, reg |-> estimator],
                     fitted |-> None, cat_out_names_ |-> None, num_out_names_ |-> None]

\* the characters of the names and categories, in code point order
Alphabet ==
    <<"0", "1", "2", "3", "4", "5", "6", "7", "8", "9", "_",
      "a", "b", "c", "d", "e", "f", "g", "h", "i", "j", "k", "l", "m",
      "n", "o", "p", "q", "r", "s", "t", "u", "v", "w", "x", "y", "z">>

Ord(ch) == CHOOSE k \in DOMAIN Alphabet : Alphabet[k] = ch

RECURSIVE StrLess(_, _)
\* a < b of two str
StrLess(a, b) ==
    IF b = <<>> THEN FALSE
    ELSE IF a = <<>> THEN TRUE
    ELSE IF Head(a) # Head(b) THEN Ord(Head(a)) < Ord(Head(b))
    ELSE StrLess(Tail(a), Tail(b))

\* a missing cell of a categorical column, and what
\* SimpleImputer(strategy='constant') puts in its place
Missing == <<"NaN">>

MissingValue == <<"m", "i", "s", "s", "i", "n", "g", "_", "v", "a", "l", "u", "e">>

ImputeConstant(column) ==
    [k \in DOMAIN column |-> IF column[k] = Missing THEN MissingValue ELSE column[k]]

RECURSIVE SortedStrs(_)
SortedStrs(S) ==
    IF S = {} THEN <<>>
    ELSE LET m == CHOOSE x \in S : \A z \in S \ {x} : StrLess(x, z)
         IN  <<m>> \o SortedStrs(S \ {m})

\* OneHotEncoder.categories_[i]: the sorted distinct values of a column
Categories(column) == SortedStrs(Range(column))

CategoryCount(column, v) == Cardinality({k \in DOMAIN column : column[k] = v})

\* OneHotEncoder._identify_infrequent with a float min_frequency: the count of
\* the category is below n_samples * min_frequency
IsInfrequent(enc, column, v) ==
    /\ enc.min_frequency # None
    /\ CategoryCount(column, v) * enc.min_frequency[1].d < Len(column) * enc.min_frequency[1].n

InfrequentName ==
    <<"i", "n", "f", "r", "e", "q", "u", "e", "n", "t", "_",
      "s", "k", "l", "e", "a", "r", "n">>

\* the categories that get an output column: the frequent ones in order, then
\* one for the infrequent ones if there are any
TransformedCategories(enc, column) ==
    SelectSeq(Categories(column), LAMBDA v : ~IsInfrequent(enc, column, v))
    \o (IF \E v \in Range(column) : IsInfrequent(enc, column, v)
        THEN <<InfrequentName>> ELSE <<>>)

RECURSIVE Flatten(_)
Flatten(ss) == IF ss = <<>> THEN <<>> ELSE Head(ss) \o Flatten(Tail(ss))

\* OneHotEncoder.get_feature_names_out() of an encoder fitted on an array X
\* (the imputer's output has no column names): 'x<i>_<category>'
get_feature_names_out(enc, X) ==
    Flatten([i \in DOMAIN X |->
        LET cats == TransformedCategories(enc, X[i])
        IN  [k \in DOMAIN cats |-> <<"x">> \o Str(i - 1) \o <<"_">> \o cats[k]]])

\* name[:len(prefix)] holds prefix
StartsWith(name, prefix) ==
    Len(name) >= Len(prefix) /\ SubSeq(name, 1, Len(prefix)) = prefix

RECURSIVE Replace(_, _, _)
\* str.replace(old, new): every occurrence of old, from the left, not overlapping
Replace(s, old, new) ==
    IF Len(s) < Len(old) THEN s
    ELSE IF StartsWith(s, old)
         THEN new \o Replace(SubSeq(s, Len(old) + 1, Len(s)), old, new)
         ELSE <<Head(s)>> \o Replace(Tail(s), old, new)

RECURSIVE RenameFrom(_, _, _)
\* lines 619-623 and 871-875: the loop over enumerate(cat_cols) from column i on;
\* each pass rewrites, in the list the passes before it left, the names that
\* start with 'x<i>'
RenameFrom(i, cat_cols, names) ==
    IF i >= Len(cat_cols) THEN names
    ELSE LET prefix == <<"x">> \o Str(i)
         IN  RenameFrom(i + 1, cat_cols,
                 [j \in DOMAIN names |->
                     IF StartsWith(names[j], prefix)
                     THEN Replace(names[j], prefix, At(cat_cols, i))
                     ELSE names[j]])

\* Pipeline.fit(self.train, self.train.target), lines 599 and 858: what the
\* fitted model holds. The categorical branch imputes the categorical columns of
\* the frame and fits the encoder, if it has one, on the result
PipelineFit(model, X, y) ==
    LET cat == model.prep[1]
        imputed == [i \in DOMAIN cat.cols |-> ImputeConstant(X.col[cat.cols[i]])]
    IN  [y |-> y,
         one_hot |-> IF Len(cat.pipe) >= 2 THEN Some(cat.pipe[2].transformer) ELSE None,
         X_cat |-> imputed,
         feature_names_in_ |-> model.prep[2].cols]

\* lines 789-794: the columns of the array the fitted ColumnTransformer hands to
\* the estimator. The branches are stacked in the order they are listed; a
\* branch with a one-hot encoder gives the encoder's columns, an imputer and a
\* scaler give one column for each column they get
OutputColumns(model, f) ==
    Flatten([b \in DOMAIN model.prep |->
        LET branch == model.prep[b]
        IN  IF \E k \in DOMAIN branch.pipe : branch.pipe[k].name = "one_hot"
            THEN LET names == get_feature_names_out(f.one_hot[1], f.X_cat)
                 IN  [k \in DOMAIN names |-> [branch |-> branch.name, name |-> names[k]]]
            ELSE [k \in DOMAIN branch.cols |->
                     [branch |-> branch.name, name |-> branch.cols[k]]]])

\* _proc_output_names, lines 607-630 (AutoRegressor) and 864-884 (AutoClassifier,
\* which has no native branch)
proc_output_names(cls, slf) ==
    LET cat_out_names_ ==
            IF cls = "AutoRegressor" /\ slf.use_catboost_native_cat_features
            THEN slf.cat_cols
            ELSE RenameFrom(0, slf.cat_cols,
                            get_feature_names_out(slf.fitted[1].one_hot[1],
                                                  slf.fitted[1].X_cat))
    IN  [cat_out_names_ |-> cat_out_names_,
         num_out_names_ |-> slf.fitted[1].feature_names_in_]

\* The tables of the model: AutoRows rows; a binary numeric column 'bin', the
\* target 0, 1, 2, ... and categorical columns
BinName == <<"b", "i", "n">>

PlainCells == [k \in 1..AutoRows |-> IF k = 1 THEN <<"b">> ELSE <<"a">>]

SameCells == [k \in 1..AutoRows |-> <<"u">>]

\* one column c with a frequent and a rare category
PlainTable == [cat_cols |-> << <<"c">> >>, col |-> [c \in {<<"c">>} |-> PlainCells]]

\* one column c with the category 'x0'
PlaceholderValueTable ==
    [cat_cols |-> << <<"c">> >>,
     col |-> [c \in {<<"c">>} |->
                [k \in 1..AutoRows |-> IF k = 1 THEN <<"x", "0">> ELSE <<"a">>]]]

\* two columns, the first one named 'x1'
PlaceholderNameTable ==
    [cat_cols |-> << <<"x", "1">>, <<"d">> >>,
     col |-> [c \in {<<"x", "1">>, <<"d">>} |->
                IF c = <<"d">> THEN SameCells ELSE PlainCells]]

\* MaxCatCols columns named a, b, c, ...
WideTable ==
    LET names == [i \in 1..MaxCatCols |-> <<Alphabet[11 + i]>>]
    IN  [cat_cols |-> names, col |-> [c \in Range(names) |-> SameCells]]

\* one column c with a missing cell
MissingTable ==
    [cat_cols |-> << <<"c">> >>,
     col |-> [c \in {<<"c">>} |->
                [k \in 1..AutoRows |-> IF k = 2 THEN Missing ELSE PlainCells[k]]]]

AutoTables == {PlainTable, PlaceholderValueTable, PlaceholderNameTable, WideTable,
               MissingTable}

\* the frame of a table with its target in the column target_col
TableFrame(t, target_col) ==
    Frame(t.cat_cols \o <<BinName, target_col>>,
          [c \in Range(t.cat_cols) \cup {BinName, target_col} |->
              IF c = target_col THEN [k \in 1..AutoRows |-> Num(k - 1)]
              ELSE IF c = BinName THEN [k \in 1..AutoRows |-> k % 2]
              ELSE t.col[c]])

AutoClasses == {"AutoRegressor", "AutoClassifier"}

\* The arguments of the constructor: a combined dataset, or its first rows as
\* train and its last row as test
AutoArgs(t, mode, target_col, log_target, scale_target, imputer_strategy, use_catboost_native_cat_features, ohe_min_freq, scale_numeric_data, scale_categoric_data) ==
    LET df == TableFrame(t, target_col)
    IN  [mode |-> mode,
         data |-> IF mode = "data" THEN df ELSE None,
         train |-> IF mode = "data" THEN None ELSE TakeRows(df, Arange(AutoRows - 1)),
         test |-> IF mode = "data" THEN None ELSE TakeRows(df, <<AutoRows - 1>>),
         num_cols |-> <<BinName>>, cat_cols |-> t.cat_cols, target_col |-> target_col,
         random_st |-> 42, log_target |-> log_target, estimator |-> "catboost",
         imputer_strategy |-> imputer_strategy,
         use_catboost_native_cat_features |-> use_catboost_native_cat_features,
         ohe_min_freq |-> ohe_min_freq, scale_numeric_data |-> scale_numeric_data,
         scale_categoric_data |-> scale_categoric_data, scale_target |-> scale_target]

\* ohe_min_freq: the default 0.05, or one half
MinFreqArgs == {Rat(1, 20), Rat(1, 2)}

StrategyArgs == {None, Some("simple"), Some("knn"), Some("median"), Some("mean")}

\* An AutoRegressor or an AutoClassifier is constructed; the options only
\* AutoRegressor has keep their defaults for an AutoClassifier
InitAuto ==
    /\ obj \in AutoClasses
    /\ \E t \in AutoTables, mode \in {"data", "split"}, target_col \in {<<"y">>, TargetName},
          log_target \in BOOLEAN, scale_target \in BOOLEAN, strategy \in StrategyArgs,
          native \in BOOLEAN, min_freq \in MinFreqArgs,
          scale \in {<<FALSE, FALSE>>, <<TRUE, FALSE>>, <<FALSE, TRUE>>} :
          LET a == AutoArgs(t, mode, target_col, log_target, scale_target, strategy,
                            native, min_freq, scale[1], scale[2])
              s == IF obj = "AutoRegressor" THEN AutoRegressorInit(a)
                   ELSE AutoClassifierInit(a)
          IN  /\ obj = "AutoClassifier" =>
                    /\ ~scale_target /\ ~native /\ min_freq = Rat(1, 20)
                    /\ scale = <<FALSE, FALSE>>
              /\ data = [args |-> a, caller |-> CallerFrames(a)]
              /\ self = s
              /\ raised = IF s.constructed THEN None ELSE Some(s.error)
    /\ call = Idle
    /\ ret = NoReturn
    /\ hist = NoHist

\* fit_report, lines 598-605 and 857-862: self.train.target is read first
AutoFitReport ==
    /\ obj \in AutoClasses
    /\ self.constructed
    /\ IF HasCol(self.train, TargetName)
       THEN /\ self' = [self EXCEPT !.fitted =
                           Some(PipelineFit(self.model, self.train,
                                            self.train.col[TargetName]))]
            /\ raised' = None
       ELSE /\ raised' = Some("AttributeError")
            /\ UNCHANGED self
    /\ ret' = [op |-> "fit_report", calls |-> 1]
    /\ UNCHANGED <<obj, data, call, hist>>

\* test_binary_column(binary_column), lines 632-658 and 886-912: the targets of
\* the rows of self.data with and without the feature
AutoTestBinaryColumn ==
    /\ obj \in AutoClasses
    /\ self.constructed
    /\ IF HasCol(self.data, TargetName)
       THEN LET rows(v) == SelectSeq([k \in 1..NRows(self.data) |-> k],
                                     LAMBDA k : (self.data.col[BinName][k] = 1) = v)
                targets(v) == [j \in DOMAIN rows(v) |->
                                  self.data.col[TargetName][rows(v)[j]]]
            IN  /\ ret' = [op |-> "test_binary_column", calls |-> 1,
                           with_feature |-> targets(TRUE),
                           without_feature |-> targets(FALSE)]
                /\ raised' = None
       ELSE /\ ret' = [op |-> "test_binary_column", calls |-> 1]
            /\ raised' = Some("KeyError")
    /\ UNCHANGED <<obj, data, self, call, hist>>

\* _proc_output_names(), lines 607-630 and 864-884; on a model that was not
\* fitted ct.transformers_ does not exist, and an AutoRegressor with native
\* categorical features has set cat_out_names_ by then
AutoProcOutputNames ==
    /\ obj \in AutoClasses
    /\ self.constructed
    /\ IF self.fitted # None
       THEN LET names == proc_output_names(obj, self)
            IN  /\ self' = [self EXCEPT !.cat_out_names_ = Some(names.cat_out_names_),
                                        !.num_out_names_ = Some(names.num_out_names_)]
                /\ ret' = [op |-> "_proc_output_names", calls |-> 1,
                           val |-> names.cat_out_names_ \o names.num_out_names_]
                /\ raised' = None
       ELSE /\ self' = IF obj = "AutoRegressor" /\ self.use_catboost_native_cat_features
                       THEN [self EXCEPT !.cat_out_names_ = Some(self.cat_cols)]
                       ELSE self
            /\ ret' = [op |-> "_proc_output_names", calls |-> 1]
            /\ raised' = Some("AttributeError")
    /\ UNCHANGED <<obj, data, call, hist>>

\* The free function get_pipeline_preprocessor is called with the column lists
\* and the options the AutoRegressor was constructed with
AutoFreePreprocessor ==
    /\ obj = "AutoRegressor"
    /\ LET a == data.args
           out == get_pipeline_preprocessor(
                      a.cat_cols, a.num_cols,
                      ArgOr(a.imputer_strategy, FunctionDefaultStrategy),
                      a.use_catboost_native_cat_features, a.scale_categoric_data,
                      a.scale_numeric_data, a.ohe_min_freq)
       IN  /\ ret' = [op |-> "get_pipeline_preprocessor", calls |-> 1, out |-> out]
           /\ raised' = IF out.ok THEN None ELSE Some(out.raised)
    /\ UNCHANGED <<obj, data, self, call, hist>>

NextAuto == AutoFitReport \/ AutoTestBinaryColumn \/ AutoProcOutputNames
               \/ AutoFreePreprocessor

SpecAuto == InitAuto /\ [][NextAuto]_vars

\* ------------------------------------------------------------ properties
TestSet(fold) == Range(fold.test)

\* the estimator stored for the f-th fold of the latest fit: the lists may begin
\* with entries an earlier, failed call left
StoredReg(f) ==
    self.cv_results_.reg[Len(self.cv_results_.reg) - Len(hist.cur_splits) + f]

OofIsPartitioned ==
    LET n == Len(data.y)
        folds == hist.cur_splits
        oof == self.oof_train_[1]
    IN  /\ \A i \in 1..n : hist.oof_writes[i] = 1 /\ ~IsNaN(oof[i])
        /\ \A i \in 1..n : \E f \in DOMAIN folds :
              /\ (i - 1) \in TestSet(folds[f])
              /\ oof[i] = EstPredictValues(StoredReg(f), <<data.X[i]>>)[1]
        /\ \A f, g \in DOMAIN folds : f # g => TestSet(folds[f]) \cap TestSet(folds[g]) = {}
        /\ UNION {TestSet(folds[f]) : f \in DOMAIN folds} = 0..(n - 1)

CVFitCompleted == obj = "RegressorCV" /\ call.pc = "idle" /\ hist.last_fit = "completed"

\* C1 (as stated): after fit completes, for a fold count or any splitter, every
\* sample has exactly one out-of-fold entry, written once at its own position by the
\* fold that tested it, and the folds' test sets are disjoint and cover all samples.
C1_AnySplitter == CVFitCompleted => OofIsPartitioned

\* C1 (amended): the same, for cv a fold count (plain, group or stratified k-fold).
C1_OofPartition == (CVFitCompleted /\ self.cv.is_int) => OofIsPartitioned

C1_Witness ==
    /\ CVFitCompleted
    /\ self.cv.is_int
    /\ self._kf.kind = "StratifiedKFold"
    /\ Len(hist.cur_splits) = MaxCv
    /\ Len(data.y) % MaxCv # 0

\* the k-th smallest value of a sequence, by counting
KthSmallest(P, k) ==
    CHOOSE v \in Range(P) :
        /\ Cardinality({i \in DOMAIN P : RLess(P[i], v)}) < k
        /\ k <= Cardinality({i \in DOMAIN P : ~RLess(v, P[i])})

MedianByRank(P) ==
    LET m == Len(P)
    IN  IF m % 2 = 1 THEN KthSmallest(P, (m + 1) \div 2)
        ELSE RDiv(RAdd(KthSmallest(P, m \div 2), KthSmallest(P, (m \div 2) + 1)), RInt(2))

\* the predictions the stored estimators give for row j of the argument of predict
FoldPredictionsAt(j) ==
    [i \in DOMAIN self.cv_results_.reg |->
        EstPredictValues(self.cv_results_.reg[i], ret.X)[j]]

CVPredicted == obj = "RegressorCV" /\ ret.op = "predict"

\* C2: predict takes one prediction from every stored fold estimator, in order, and
\* returns for every row the median of these predictions.
C2_PredictIsMedian ==
    CVPredicted =>
        /\ Len(ret.y_preds) = Len(self.cv_results_.reg)
        /\ \A i \in DOMAIN ret.y_preds :
              ret.y_preds[i] = EstPredict(self.cv_results_.reg[i], ret.X)
        /\ Len(ret.val.vals) = Len(ret.X)
        /\ \A j \in DOMAIN ret.X : ret.val.vals[j] = MedianByRank(FoldPredictionsAt(j))

\* a prediction over three or more folds whose median is not their mean
C2_Witness ==
    /\ CVPredicted
    /\ Len(self.cv_results_.reg) >= 3
    /\ \E j \in DOMAIN ret.X : ret.val.vals[j] # NpMean(FoldPredictionsAt(j))

PlainKFoldCase ==
    obj = "RegressorCV" /\ self.cv.is_int /\ self.groups = None /\ self.n_bins_stratify = None

\* C8: with plain k-fold, the k-th split a fit call consumes is the k-th split the
\* fit call before it consumed, on this or on an earlier instance.
C8_Deterministic ==
    PlainKFoldCase =>
        \A k \in DOMAIN hist.prev_splits \cap DOMAIN hist.cur_splits :
            hist.prev_splits[k] = hist.cur_splits[k]

\* two complete runs on separately constructed instances
C8_Witness ==
    /\ PlainKFoldCase
    /\ hist.last_fit = "completed"
    /\ Len(hist.prev_splits) = MaxCv
    /\ Len(hist.cur_splits) = MaxCv

GroupsOf(index) == {self.groups[1][i + 1] : i \in Range(index)}

\* C9: the splitter is GroupKFold when groups is given, else StratifiedKFold when
\* n_bins_stratify is given, else KFold shuffled with seed 42, each with cv folds; a
\* cv that is no integer is the splitter.  fit passes groups to the first, the
\* target cut into n_bins_stratify bins to the second, and neither to the third;
\* no group is on both sides of a group-aware split.
C9_Strategy ==
    obj = "RegressorCV" =>
        /\ (self.cv.is_int /\ self.groups # None) =>
              /\ self._kf.kind = "GroupKFold" /\ self._kf.n_splits = self.cv.n
              /\ call.pc = "fit" =>
                    /\ call.split_args = [y |-> None, groups |-> self.groups]
                    /\ \A f \in DOMAIN call.kf_split :
                          GroupsOf(call.kf_split[f].train)
                              \cap GroupsOf(call.kf_split[f].test) = {}
        /\ (self.cv.is_int /\ self.groups = None /\ self.n_bins_stratify # None) =>
              /\ self._kf.kind = "StratifiedKFold" /\ self._kf.n_splits = self.cv.n
              /\ call.pc = "fit" =>
                    call.split_args = [y |-> Some(Cut(data.y, self.n_bins_stratify[1])),
                                       groups |-> None]
        /\ (self.cv.is_int /\ self.groups = None /\ self.n_bins_stratify = None) =>
              /\ self._kf = Splitter("KFold", self.cv.n, 0, TRUE, Some(42))
              /\ call.pc = "fit" => call.split_args = [y |-> None, groups |-> None]
        /\ ~self.cv.is_int => self._kf = self.cv.splitter

\* groups and n_bins_stratify both given: a group-aware split is running
C9_Witness ==
    /\ obj = "RegressorCV"
    /\ self.cv.is_int /\ self.groups # None /\ self.n_bins_stratify # None
    /\ call.pc = "fit"
    /\ Len(call.kf_split) = MaxCv

TSObject == obj = "RegressorTimeSeriesCV"

\* the fold entries the running fit call has recorded so far
TSRecorded(slf, k) ==
    [f \in 1..k |-> slf.cv_results_.rows[Len(slf.cv_results_.rows) - k + f]]

\* C3: while RegressorTimeSeriesCV.fit goes through the folds base_reg stays as
\* it is and the estimator recorded for a fold is a copy of base_reg fitted once on
\* the fold's train window; base_reg changes inside fit only after every fold of
\* the call is recorded, by one fit on all of X and y; and predict returns what
\* base_reg predicts, which after a completed fit is the estimator fitted on all
\* the data.
C3_RefitAfterFolds ==
    [][TSObject =>
        /\ (call.pc = "fit" /\ call.fold_n < Len(call.kf_split)) =>
              /\ self'.base_reg = self.base_reg
              /\ self'.cv_results_ # self.cv_results_ =>
                    LET fold == call.kf_split[call.fold_n + 1]
                        row == self'.cv_results_.rows[Len(self'.cv_results_.rows)]
                    IN  /\ self'.cv_results_.rows = Append(self.cv_results_.rows, row)
                        /\ row.fold = call.fold_n
                        /\ row.reg.train = fold.train
                        /\ row.reg.n_fit = self.base_reg.n_fit + 1
                        /\ row.reg.quantile = self.base_reg.quantile
                        /\ row.reg.two_dim = self.base_reg.two_dim
        /\ (call.pc = "fit" /\ self'.base_reg # self.base_reg) =>
              /\ call.fold_n = Len(call.kf_split)
              /\ Len(self.cv_results_.rows) >= Len(call.kf_split)
              /\ \A f \in DOMAIN call.kf_split :
                    /\ TSRecorded(self, Len(call.kf_split))[f].fold = f - 1
                    /\ TSRecorded(self, Len(call.kf_split))[f].reg.train
                          = call.kf_split[f].train
              /\ self'.base_reg.n_fit = self.base_reg.n_fit + 1
              /\ self'.base_reg.train = Arange(Len(data.y))
              /\ self'.base_reg.fit_kw.sample_weight = call.sample_weight
              /\ self'.base_reg.n_fit = 1
        /\ (ret'.op = "predict" /\ ret' # ret) =>
              /\ ret'.val = EstPredict(self.base_reg, ret'.X)
              /\ hist.last_fit = "completed" =>
                    /\ self.base_reg.n_fit = 1
                    /\ self.base_reg.train = Arange(Len(data.y))
    ]_vars

\* predict after a completed fit whose last train window misses the largest target
C3_Witness ==
    /\ TSObject
    /\ hist.last_fit = "completed"
    /\ ret.op = "predict"
    /\ self.base_reg.quantile = 1
    /\ LET rows == self.cv_results_.rows
       IN  rows[Len(rows)].reg.intercept_ # self.base_reg.intercept_

CVObject == obj = "RegressorCV"

Aggregates(slf) ==
    IF CVObject THEN <<slf.metrics_, slf.oof_score_, slf.oof_mape_, slf.oof_rmse_>>
    ELSE <<slf.metrics_>>

\* the fold entries
FoldResults(slf) ==
    IF CVObject THEN <<slf.cv_results_.fold, slf.cv_results_.reg>>
    ELSE <<slf.cv_results_.rows>>

\* C10: when a step of fit inside fold i ends in an exception, the exception is
\* what the call leaves: the call is over, the fold was entered once and is not
\* recorded, no later fold is entered, and the aggregate results are what they
\* were before (unset on an instance never fitted).
C10_FoldFailureAborts ==
    [][((CVObject \/ TSObject) /\ call.pc = "fit" /\ call.fold_n < Len(call.kf_split)
            /\ raised' # None) =>
          /\ call'.pc = "idle"
          /\ hist'.last_fit = "failed"
          /\ hist'.cur_splits = Append(hist.cur_splits, call.kf_split[call.fold_n + 1])
          /\ Len(hist'.cur_splits) = call.fold_n + 1
          /\ Aggregates(self') = Aggregates(self)
          /\ FoldResults(self') = FoldResults(self)
    ]_vars

\* a failure in a later fold of a RegressorCV never fitted: the earlier folds are
\* recorded, the aggregates are unset
C10_Witness ==
    /\ CVObject
    /\ raised = Some("EstimatorError")
    /\ call.pc = "idle"
    /\ hist.last_fit = "failed"
    /\ Len(hist.cur_splits) = MaxCv
    /\ ~self.cv_results_.frame
    /\ Len(self.cv_results_.fold) = MaxCv - 1
    /\ Aggregates(self) = <<None, None, None, None>>

KNNPredicted == obj = "KNNRegressor" /\ ret.op = "predict"

\* the targets, in output j, of the neighbours predict found for query q
TargetsOf(q, j) ==
    [a \in DOMAIN ret.neigh_ind[q] |-> RInt(At(Reshape(self._y), ret.neigh_ind[q][a])[j])]

\* the entry of the returned y_pred for query q and output j
PredAt(q, j) == IF ret.val.ndim = 1 THEN ret.val.vals[q] ELSE ret.val.vals[q][j]

Outputs == DOMAIN Reshape(self._y)[1]

\* the neighbours of query q are n_neighbors different training samples, none
\* farther from the query than a sample left out
AreNearest(q) ==
    LET ind == ret.neigh_ind[q]
    IN  /\ Len(ind) = self.n_neighbors
        /\ Cardinality(Range(ind)) = self.n_neighbors
        /\ \A i \in Range(ind), o \in (0..(Len(self._fit_X) - 1)) \ Range(ind) :
              Abs(ret.X[q] - At(self._fit_X, i)) <= Abs(ret.X[q] - At(self._fit_X, o))

\* C4: with uniform weights predict returns, for every query and output, the sum
\* of the k nearest targets divided by k when pred_calc is 'mean', and their
\* median when pred_calc is 'median'.
C4_UniformMeanMedian ==
    (KNNPredicted /\ self.weights = "uniform") =>
        \A q \in DOMAIN ret.X :
            /\ AreNearest(q)
            /\ \A j \in Outputs :
                  /\ ret.pred_calc = "mean" =>
                        PredAt(q, j) = RDiv(RSum(TargetsOf(q, j)), RInt(self.n_neighbors))
                  /\ ret.pred_calc = "median" =>
                        PredAt(q, j) = MedianByRank(TargetsOf(q, j))

\* a median over MaxK neighbours that is not their mean
C4_Witness ==
    /\ KNNPredicted
    /\ self.weights = "uniform"
    /\ self.n_neighbors = MaxK
    /\ ret.pred_calc = "median"
    /\ \E q \in DOMAIN ret.X : PredAt(q, 1) # NpMean(TargetsOf(q, 1))

\* the weights of 'distance': the inverse distances, or, when a neighbour is at
\* distance zero, 1 for such neighbours and 0 for the others
InverseDistance(q) ==
    LET d == ret.neigh_dist[q]
    IN  [a \in DOMAIN d |->
            IF \E b \in DOMAIN d : d[b] = 0
            THEN (IF d[a] = 0 THEN RInt(1) ELSE RInt(0))
            ELSE Rat(1, d[a])]

\* C5: with distance weights predict returns, for every query and output, the
\* sum of weight * target over the k neighbours divided by the sum of the weights;
\* when the k distances of a query are equal this is the mean of the k targets.
C5_WeightedAverage ==
    (KNNPredicted /\ self.weights = "distance") =>
        \A q \in DOMAIN ret.X : \A j \in Outputs :
            LET w == InverseDistance(q)
                t == TargetsOf(q, j)
            IN  /\ PredAt(q, j) = RDiv(RSum([a \in DOMAIN t |-> RMul(w[a], t[a])]), RSum(w))
                /\ (\A a, b \in DOMAIN w : ret.neigh_dist[q][a] = ret.neigh_dist[q][b]) =>
                      PredAt(q, j) = RDiv(RSum(t), RInt(self.n_neighbors))

\* MaxK neighbours with different targets, all at distance 2
C5_Witness ==
    /\ KNNPredicted
    /\ self.weights = "distance"
    /\ self.n_neighbors = MaxK
    /\ \E q \in DOMAIN ret.X :
          /\ \A a \in DOMAIN ret.neigh_dist[q] : ret.neigh_dist[q][a] = 2
          /\ \E a, b \in DOMAIN ret.neigh_ind[q] : TargetsOf(q, 1)[a] # TargetsOf(q, 1)[b]

MatchIndexReturned ==
    /\ KNNPredicted
    /\ ret.return_match_index
    /\ self.n_neighbors % 2 = 1
    /\ self._y.ndim = 1

\* C6: with return_match_index and an odd k the index returned for a query is one
\* of its k neighbours, and its target is the target of rank k // 2 among the
\* sorted targets of the k neighbours.
C6_MatchIsMedianTarget ==
    MatchIndexReturned =>
        \A q \in DOMAIN ret.X :
            LET matched == ret.nearest_matched_index[1][q][1]
            IN  /\ matched \in Range(ret.neigh_ind[q])
                /\ RInt(At(self._y.vals, matched))
                      = KthSmallest(TargetsOf(q, 1), (self.n_neighbors \div 2) + 1)

\* what predict returns instead: the first, nearest neighbour of every query
C6_MatchIsNearest ==
    MatchIndexReturned =>
        \A q \in DOMAIN ret.X : ret.nearest_matched_index[1][q] = <<ret.neigh_ind[q][1]>>

\* a query with neighbours at different distances whose nearest neighbour does
\* not hold the median target
C6_Witness ==
    /\ MatchIndexReturned
    /\ self.n_neighbors = MaxK
    /\ \E q \in DOMAIN ret.X :
          /\ \A a, b \in DOMAIN ret.neigh_dist[q] :
                a < b => ret.neigh_dist[q][a] < ret.neigh_dist[q][b]
          /\ RInt(At(self._y.vals, ret.nearest_matched_index[1][q][1]))
                # KthSmallest(TargetsOf(q, 1), (self.n_neighbors \div 2) + 1)

CBObject == obj = "CatBoostRegressorCV"

FitCompleted == (CVObject \/ TSObject) /\ call.pc = "idle" /\ hist.last_fit = "completed"

\* the rows of a summary are n fold rows indexed 0..n-1 in order, then the mean
\* row and the std row of the r2_score and mape columns of these n rows
IsSummaryOfFolds(m, n) ==
    /\ Len(m) = n + 2
    /\ \A k \in 1..n : m[k].index = <<"fold", k - 1>>
    /\ m[n + 1].index = <<"mean">>
    /\ m[n + 2].index = <<"std">>
    /\ m[n + 1].r2_score = ColMean([k \in 1..n |-> m[k].r2_score])
    /\ m[n + 2].r2_score = ColVar([k \in 1..n |-> m[k].r2_score])
    /\ m[n + 1].mape = ColMean([k \in 1..n |-> m[k].mape])
    /\ m[n + 2].mape = ColVar([k \in 1..n |-> m[k].mape])

\* C12: after a fit that processed n folds, metrics_ and get_metrics_summary have
\* n + 2 rows: the folds 0..n-1 in order, then 'mean', then 'std' over the n fold
\* rows.
C12_SummaryRows ==
    FitCompleted =>
        /\ IsSummaryOfFolds(self.metrics_[1], Len(hist.cur_splits))
        /\ ret.op = "get_metrics_summary" =>
              IsSummaryOfFolds(ret.val, Len(hist.cur_splits))

\* the same on an instance whose cv_results_ held nothing when fit began
C12_SummaryRowsOfFirstFit ==
    (FitCompleted /\ Len(self.metrics_[1]) <= Len(hist.cur_splits) + 2) =>
        /\ IsSummaryOfFolds(self.metrics_[1], Len(hist.cur_splits))
        /\ ret.op = "get_metrics_summary" =>
              IsSummaryOfFolds(ret.val, Len(hist.cur_splits))

\* a completed fit of MaxCv folds whose summary begins with the fold an earlier,
\* failed fit of the same instance recorded
C12_Witness ==
    /\ FitCompleted
    /\ Len(hist.cur_splits) = MaxCv
    /\ Len(self.metrics_[1]) = MaxCv + 3
    /\ self.metrics_[1][1].index = <<"fold", 0>>
    /\ self.metrics_[1][2].index = <<"fold", 0>>

\* the metrics recorded for the i-th entry of cv_results_, a list or a table
MetricsOf(res, i) ==
    IF res.frame THEN <<res.r2_score[i], res.rmse[i], res.mape[i]>> ELSE res.metrics[i]

\* a step of fit, or an answer of predict
FitOrPredictStep ==
    \/ call.pc = "fit"
    \/ call'.pc = "fit"
    \/ ret'.op = "predict" /\ ret' # ret

C18_SqueezedPrediction ==
    [][(CVObject /\ call.pc = "fit" /\ call.fold_n < Len(call.kf_split)
            /\ self.base_reg.two_dim /\ raised' = None) =>
          LET fold == call.kf_split[call.fold_n + 1]
              reg == self'.cv_results_.reg[Len(self'.cv_results_.reg)]
              one_dim == EstPredictValues(reg, Take(data.X, fold.test))
              oof == self'.oof_train_[1]
          IN  /\ Len(one_dim) = Len(fold.test)
              /\ \A q \in DOMAIN fold.test : oof[fold.test[q] + 1] = one_dim[q]
              /\ \A j \in DOMAIN oof :
                    (j - 1) \notin Range(fold.test) => oof[j] = self.oof_train_[1][j]
    ]_vars

\* a completed fit with a two-dimensional prediction and a test fold of one sample
C18_Witness ==
    /\ CVObject
    /\ hist.last_fit = "completed"
    /\ self.base_reg.two_dim
    /\ \E f \in DOMAIN hist.cur_splits : Len(hist.cur_splits[f].test) = 1
    /\ \A j \in DOMAIN self.oof_train_[1] : ~IsNaN(self.oof_train_[1][j])

\* the fold indices cv_results_ holds, a list or a table
StoredFolds(slf) ==
    IF CVObject THEN slf.cv_results_.fold
    ELSE [i \in DOMAIN slf.cv_results_.rows |-> slf.cv_results_.rows[i].fold]

\* C19: a fit call on an instance that was fitted before does not fail on the
\* results the instance already holds, and when a fit call completes cv_results_
\* holds the folds of this call, 0..n-1 once each, and nothing else.
C19_RefitReplacesResults ==
    [][((CVObject \/ TSObject) /\ call.pc = "fit") =>
          /\ raised' \notin {Some("AttributeError"), Some("TypeError")}
          /\ hist'.last_fit = "completed" =>
                StoredFolds(self') = [i \in 1..Len(call.kf_split) |-> i - 1]
    ]_vars

\* a second fit on a fitted instance has failed on the stored results
C19_Witness ==
    /\ CVObject \/ TSObject
    /\ call.pc = "idle"
    /\ hist.last_fit = "failed"
    /\ raised \in {Some("AttributeError"), Some("TypeError")}
    /\ self.cv_results_.frame
    /\ self.metrics_ # None
    /\ Len(hist.cur_splits) = 1

\* ---- AutoRegressor and AutoClassifier
AutoObject == obj \in AutoClasses /\ self.constructed

\* the target column the constructor was given, for the rows that became the
\* train or the test set
OriginalTarget(part) ==
    LET a == data.args
    IN  IF a.mode = "data"
        THEN train_test_split(a.data, a.random_st)[part].col[a.target_col]
        ELSE a[part].col[a.target_col]

Log1pOf(column) == [k \in DOMAIN column |-> Log1p(column[k])]

LogTargetCase ==
    /\ obj = "AutoRegressor" /\ self.constructed
    /\ data.args.log_target /\ ~data.args.scale_target
    /\ data.args.target_col # TargetName

\* C13: with log_target, in both construction modes, the 'target' column of the
\* train and of the test set of an AutoRegressor is log1p of the original target
\* column, and that is the target fit_report fits on
C13_LogTargetBothModes ==
    LogTargetCase =>
        /\ \A part \in {"train", "test"} :
              self[part].col[TargetName] = Log1pOf(OriginalTarget(part))
        /\ self.fitted # None => self.fitted[1].y = Log1pOf(OriginalTarget("train"))

\* C13, for a combined dataset only
C13_LogTargetCombinedData ==
    (LogTargetCase /\ data.args.mode = "data") =>
        /\ \A part \in {"train", "test"} :
              self[part].col[TargetName] = Log1pOf(OriginalTarget(part))
        /\ self.fitted # None => self.fitted[1].y = Log1pOf(OriginalTarget("train"))

\* a model fitted with log_target on pre-split sets, on the target as it was given
C13_Witness ==
    /\ LogTargetCase
    /\ data.args.mode = "split"
    /\ self.fitted # None
    /\ self.fitted[1].y = OriginalTarget("train")
    /\ \E k \in DOMAIN self.fitted[1].y : self.fitted[1].y[k].of > 0

\* C20: after construction, whatever the mode and the name of the target
\* column, the train set, the test set and the full data set each have a
\* 'target' column, so that fit_report and test_binary_column can read it
C20_TargetColumnStored ==
    AutoObject =>
        /\ \A part \in {"train", "test", "data"} : HasCol(self[part], TargetName)
        /\ ret.op \in {"fit_report", "test_binary_column"} => raised = None

\* test_binary_column fails on an object built from train and test sets whose
\* target column has another name than 'target'
C20_Witness ==
    /\ AutoObject
    /\ data.args.mode = "split" /\ data.args.target_col # TargetName
    /\ ~HasCol(self.data, TargetName)
    /\ ret.op = "test_binary_column" /\ raised = Some("KeyError")

\* fit_report fails on an object whose target column is named 'target'
C20_WitnessTargetNamedTarget ==
    /\ AutoObject
    /\ data.args.target_col = TargetName
    /\ ~HasCol(self.train, TargetName)
    /\ ret.op = "fit_report" /\ raised = Some("AttributeError")

\* the one-hot output names of the fitted encoder with the name of the i-th
\* categorical column in the place of the placeholder 'x<i>'
ExpectedNames ==
    LET f == self.fitted[1]
    IN  Flatten([i \in DOMAIN f.X_cat |->
            LET cats == TransformedCategories(f.one_hot[1], f.X_cat[i])
            IN  [k \in DOMAIN cats |-> self.cat_cols[i] \o <<"_">> \o cats[k]]])

Placeholder(i) == <<"x">> \o Str(i - 1)

\* _proc_output_names returned the names of a fitted one-hot encoder
OutputNamesReturned ==
    /\ AutoObject
    /\ ret.op = "_proc_output_names" /\ raised = None
    /\ self.fitted[1].one_hot # None

\* C14: for every list of categorical columns, _proc_output_names gives each
\* one-hot output name of the i-th column with its leading placeholder 'x<i>',
\* and nothing else, replaced by the name of the i-th column, and the numeric
\* column names after the categorical ones
C14_PlaceholderReplaced ==
    OutputNamesReturned => ret.val = ExpectedNames \o self.num_cols

Contains(s, sub) ==
    \E k \in 1..(Len(s) - Len(sub) + 1) : SubSeq(s, k, k + Len(sub) - 1) = sub

\* no column name and no category holds the placeholder of a column, and no
\* placeholder is the beginning of another one
PlainNames ==
    /\ Len(self.cat_cols) <= 10
    /\ \A i, j \in DOMAIN self.cat_cols :
          /\ ~Contains(self.cat_cols[j], Placeholder(i))
          /\ \A v \in Range(self.fitted[1].X_cat[j]) : ~Contains(v, Placeholder(i))

\* C14, for names and categories that hold no placeholder
C14_PlainNamesReplaced ==
    (OutputNamesReturned /\ PlainNames) => ret.val = ExpectedNames \o self.num_cols

\* with MaxCatCols columns named by one letter, the names of the last column
\* come out under the name of the second column
C14_Witness ==
    /\ OutputNamesReturned
    /\ Len(self.cat_cols) > 10
    /\ \A j \in DOMAIN self.cat_cols : Len(self.cat_cols[j]) = 1
    /\ ret.val # ExpectedNames \o self.num_cols
    /\ \E k \in DOMAIN ret.val : StartsWith(ret.val[k], self.cat_cols[2] \o <<"0">>)

\* a category 'x0' of the first column is replaced as well
C14_WitnessCategory ==
    /\ OutputNamesReturned
    /\ self.cat_cols = << <<"c">> >>
    /\ <<"c", "_", "c">> \in Range(ret.val)

\* the names of a first column called 'x1' come out under the name of the second
C14_WitnessColumnName ==
    /\ OutputNamesReturned
    /\ self.cat_cols = << <<"x", "1">>, <<"d">> >>
    /\ <<"d", "_", "a">> \in Range(ret.val)

\* the free function was called with the arguments of an AutoRegressor whose
\* own get_pipeline_preprocessor was reached by the constructor
BothCalled ==
    /\ obj = "AutoRegressor"
    /\ ret.op = "get_pipeline_preprocessor"
    /\ self.constructed \/ self.error = "AttributeError"

BothReturned == BothCalled /\ self.constructed /\ ret.out.ok

StepNames(pipe) == [k \in DOMAIN pipe |-> pipe[k].name]

\* C15 as stated: for the same column lists and options, the defaults
\* included, the free function get_pipeline_preprocessor and
\* AutoRegressor.get_pipeline_preprocessor build the same column transformer
C15_Equivalent ==
    BothCalled => /\ self.constructed /\ ret.out.ok
                  /\ ret.out.val = self.prep

\* C15: the two build the same categorical branch and the same numeric steps
\* but for the imputer. Both return only for 'knn' and for the defaults; the
\* function then imputes with KNNImputer(n_neighbors=3, weights='distance'),
\* the method with KNNImputer(n_neighbors=3) for 'knn' and with
\* SimpleImputer(strategy='median') by default. 'simple' is accepted by the
\* method only, 'median' and 'mean' by the function only
C15_SameButImputer ==
    BothCalled =>
        LET given == data.args.imputer_strategy
        IN  /\ self.constructed <=> given \in {None, Some("knn"), Some("simple")}
            /\ ret.out.ok <=> given \in {None, Some("knn"), Some("median"), Some("mean")}
            /\ BothReturned =>
                  LET method == self.prep
                      function == ret.out.val
                  IN  /\ function[1] = method[1]
                      /\ function[2].name = method[2].name
                      /\ function[2].cols = method[2].cols
                      /\ StepNames(function[2].pipe) = StepNames(method[2].pipe)
                      /\ Tail(function[2].pipe) = Tail(method[2].pipe)
                      /\ function[2].pipe[1].transformer = KNNImputer(3, "distance")
                      /\ method[2].pipe[1].transformer =
                            IF given = None THEN SimpleImputer("median")
                            ELSE KNNImputer(3, "uniform")

\* both were built for 'knn' with scaled one-hot columns, and differ
C15_Witness ==
    /\ BothReturned
    /\ data.args.imputer_strategy = Some("knn")
    /\ data.args.scale_categoric_data /\ ~data.args.use_catboost_native_cat_features
    /\ Len(self.prep[1].pipe) = 3
    /\ ret.out.val # self.prep

\* the model was fitted and its categorical branch has a one-hot encoder
OneHotFitted ==
    /\ AutoObject
    /\ self.fitted # None
    /\ self.fitted[1].one_hot # None

\* the output names of the fitted one-hot encoder
FittedNames == Range(get_feature_names_out(self.fitted[1].one_hot[1], self.fitted[1].X_cat))

OwnColumn(i, v) == <<"x">> \o Str(i - 1) \o <<"_">> \o v

\* the relative frequency of v in the i-th categorical column of the training
\* data is below the cutoff
BelowCutoff(i, v, cutoff) ==
    LET column == self.fitted[1].X_cat[i]
    IN  Cardinality({k \in DOMAIN column : column[k] = v}) * cutoff.d
           < Len(column) * cutoff.n

\* the encoder has the cutoff, the categories below it have no column of their
\* own and share the 'infrequent' one, and the others have their own
CollapsesBelow(cutoff) ==
    /\ self.fitted[1].one_hot[1].min_frequency = Some(cutoff)
    /\ \A i \in DOMAIN self.fitted[1].X_cat :
          \A v \in Range(self.fitted[1].X_cat[i]) :
              IF BelowCutoff(i, v, cutoff)
              THEN /\ OwnColumn(i, v) \notin FittedNames
                   /\ OwnColumn(i, InfrequentName) \in FittedNames
              ELSE OwnColumn(i, v) \in FittedNames

\* C16 as stated: in the pipeline of the auto-regressor and of the
\* auto-classifier the one-hot encoder has the minimum-frequency cutoff, and a
\* category below it in the training data gets no one-hot column of its own
C16_CutoffInBoth == OneHotFitted => CollapsesBelow(data.args.ohe_min_freq)

\* C16: the one-hot encoder of the auto-regressor has the cutoff ohe_min_freq
\* and collapses the categories below it; the one-hot encoder of the
\* auto-classifier has no cutoff, and every category has its own column
C16_CutoffInRegressor ==
    OneHotFitted =>
        IF obj = "AutoRegressor" THEN CollapsesBelow(data.args.ohe_min_freq)
        ELSE /\ self.fitted[1].one_hot[1].min_frequency = None
             /\ \A i \in DOMAIN self.fitted[1].X_cat :
                   \A v \in Range(self.fitted[1].X_cat[i]) : OwnColumn(i, v) \in FittedNames

\* an auto-regressor fitted on a column whose category b is below the cutoff
C16_Witness ==
    /\ OneHotFitted
    /\ obj = "AutoRegressor"
    /\ self.cat_cols = << <<"c">> >>
    /\ BelowCutoff(1, <<"b">>, data.args.ohe_min_freq)
    /\ <<"b">> \in Range(self.fitted[1].X_cat[1])
    /\ FittedNames = {OwnColumn(1, <<"a">>), OwnColumn(1, InfrequentName)}

\* the tables the constructor was given
PassedFrames == [data |-> data.args.data, train |-> data.args.train, test |-> data.args.test]

NativeFitted ==
    /\ obj = "AutoRegressor" /\ self.constructed
    /\ data.args.estimator = "catboost"
    /\ data.args.use_catboost_native_cat_features
    /\ self.fitted # None

\* C22: with estimator='catboost' and use_catboost_native_cat_features, the
\* cat_features of the estimator are 0..len(cat_cols)-1 and these are the
\* positions of the categorical columns in what the preprocessor puts out: the
\* categorical branch is first and only imputes, one column for each
\* categorical column in their order, and the numeric columns follow
C22_CatFeaturesArePositions ==
    NativeFitted =>
        LET out == OutputColumns(self.model, self.fitted[1])
            cat_features == self.model.reg.cat_features
        IN  /\ cat_features = Some(Arange(Len(self.cat_cols)))
            /\ self.model.prep[1].name = "cat"
            /\ StepNames(self.model.prep[1].pipe) = <<"imputer">>
            /\ Len(out) = Len(self.cat_cols) + Len(self.num_cols)
            /\ \A p \in DOMAIN out :
                  (out[p].branch = "cat") <=> (p - 1 \in Range(cat_features[1]))
            /\ \A i \in DOMAIN self.cat_cols :
                  out[At(cat_features[1], i - 1) + 1].name = self.cat_cols[i]
            /\ \A j \in DOMAIN self.num_cols :
                  out[Len(self.cat_cols) + j] = [branch |-> "num", name |-> self.num_cols[j]]

\* fitted on two categorical columns, with scaling of the categorical data asked
C22_Witness ==
    /\ NativeFitted
    /\ Len(self.cat_cols) = 2
    /\ data.args.scale_categoric_data
    /\ ret.op = "fit_report" /\ raised = None
    /\ self.model.reg.cat_features = Some(<<0, 1>>)
    /\ Len(OutputColumns(self.model, self.fitted[1])) = 3

\* ---- KNNRegressor: pred_calc
\* the weighted average of C5 for query q and output j
WeightedAverage(q, j) ==
    LET w == InverseDistance(q)
        t == TargetsOf(q, j)
    IN  RDiv(RSum([a \in DOMAIN t |-> RMul(w[a], t[a])]), RSum(w))

\* what predict returned: with uniform weights pred_calc was 'mean' or
\* 'median', with distance weights the result is the weighted average
PredCalcOfReturned ==
    KNNPredicted =>
        /\ self.weights = "uniform" => ret.pred_calc \in {"mean", "median"}
        /\ self.weights = "distance" =>
              \A q \in DOMAIN ret.X : \A j \in Outputs : PredAt(q, j) = WeightedAverage(q, j)

\* a call that ends with y_pred unbound is a call on a fitted regressor with
\* uniform weights; it returns nothing and leaves the regressor as it was
UnboundLeavesFitted ==
    (obj = "KNNRegressor" /\ raised' = Some("UnboundLocalError")) =>
        /\ self.fitted /\ self.weights = "uniform"
        /\ ret' = NoReturn
        /\ self' = self

\* C23: predict with uniform weights and a pred_calc other than 'mean' and
\* 'median' never returns a prediction: it ends in an error that leaves the
\* fitted samples and targets unchanged; with distance weights predict returns
\* the weighted average for every pred_calc
C23_PredCalc == []PredCalcOfReturned /\ [][UnboundLeavesFitted]_vars

\* predict ended with y_pred unbound on a fitted regressor with uniform weights
C23_Witness ==
    /\ obj = "KNNRegressor"
    /\ self.fitted /\ self.weights = "uniform"
    /\ self._fit_X = data.X /\ self._y = data.y
    /\ raised = Some("UnboundLocalError")
    /\ ret = NoReturn

\* predict returned for a pred_calc other than 'mean' and 'median' with
\* distance weights, and the result is not the mean of the targets
C23_WitnessDistance ==
    /\ KNNPredicted
    /\ self.weights = "distance"
    /\ ret.pred_calc \notin {"mean", "median"}
    /\ \E q \in DOMAIN ret.X : PredAt(q, 1) # NpMean(TargetsOf(q, 1))

====
